---- MODULE Spec2Model ----
(***************************************************************************)
(* State-machine model of the data-fetching logic of the Learning-React    *)
(* lessons: the useFetch custom hook, the AvailablePlaces and Meals        *)
(* components, the optimistic place selection of the PlacePicker App and   *)
(* the Tanstack Query lesson (query cache, EditEvent / NewEvent mutations, *)
(* FindEventSection).                                                      *)
(***************************************************************************)
EXTENDS Integers, Sequences, FiniteSets, TLC

(***************************************************************************)
(* Bounds of the model.                                                    *)
(***************************************************************************)
NumHooks == 2
NumFetchFns == 2
MaxCalls == 2
MaxUpdates == 2
MaxQueries == 2
MaxMutations == 2
MaxObservers == 2
\* The time that passes in one step of the clock, in ms.
TickMs == 2000
MaxDispatches == 4
NumProducts == 2
MaxQuantity == 3
MaxEmailLen == 2
NumQuestions == 2
QuizTickMs == 1000
MaxKeystrokes == 4
KeyTickMs == 250
NumPickerPlaces == 2
MaxDialogTimers == 2
DialogTickMs == 1500
MaxPasswordLen == 9
NumEvents == 2
MaxActions == 3
NumAccordionItems == 2

Hooks == 1..NumHooks
FetchFns == 1..NumFetchFns
CallIds == 1..MaxCalls
UpdateIds == 1..MaxUpdates

\* JavaScript's undefined, for state created by useState() without argument.
Undefined == "undefined"

\* error.message of a rejection: a message of the http helpers, or none ("").
ErrorMessages == {"", "Failed to fetch user places."}

VARIABLES
  \* ---- useFetch (16-custom-hooks) ----
  mounted,        \* mounted[h]: hook instance h is mounted
  fetchFn,        \* fetchFn[h]: the fetchFn argument of the last render of h
  isFetching,     \* isFetching[h]: "undefined" | "true" | "false"
  error,          \* error[h]: "undefined" or the message of the error object
  fetchedData,    \* fetchedData[h]: initialValue or the data of a fetch
  inflight,       \* pending fetchFn() promises: records [id, hook, fn]
  nCalls,         \* number of fetchFn calls issued so far (ids are 1..nCalls)
  issued,         \* issued[id]: [hook, fn, status] of the id-th fetchFn call,
                  \* status "none" | "pending" | "success" | "failure"
  \* ---- AvailablePlaces (15-data-fetching) ----
  apPc,           \* "unmounted" | "fetching" | "locating" | "done" | "failed"
                  \* | "unlocated"
  apIsFetching,
  availablePlaces,
  apError,
  \* ---- Meals (19-practice-project) ----
  mealsPc,        \* "unmounted" | "fetching" | "parsing" | "done" | "rejected"
  loadedMeals,
  unhandledRejections, \* rejected promises that no handler was attached to
  \* ---- PlacePicker App (15-data-fetching) ----
  userPlaces,          \* the userPlaces state
  renderedUserPlaces,  \* userPlaces as the last executed App() read it: the
                       \* value the handlers of that render close over
  renderedErrorUpdatingPlaces, \* errorUpdatingPlaces as of that render: the
                       \* error dialog on screen
  renderedModalIsOpen, \* modalIsOpen as of that render: the delete dialog
                       \* on screen
  renderPending,       \* a state update is scheduled and App() has not re-run
  errorUpdatingPlaces, \* "undefined" | "null" | message of the error object
  modalIsOpen,
  selectedPlace,       \* selectedPlace.current (0: undefined)
  updates,             \* pending updateUserPlaces() promises, of a selection
                       \* or of a removal
  nUpdates,            \* number of updateUserPlaces calls so far
  updateLog,           \* updateLog[id]: [kind, place, prePatch, sent, patched,
                       \* status]
  \* ---- Tanstack Query lesson (25-react-query) ----
  cache,          \* cache[k]: the CacheEntry of key k
  subscribers,    \* subscribers[k]: number of observers of key k
  stats,          \* stats[k]: [queries, fetchCalls, hits] counted per key
  inval,          \* inval[k]: what happened since the last invalidation of k
  server,         \* server[k]: version of the backend data behind key k
  mutations,      \* pending mutations: records [id, kind, phase,
                  \* previousEvent]; phase is "submitted", "cancelling",
                  \* "patched" or "sent"
  nMutations,
  editMounted,    \* EditEvent is mounted
  findMounted,    \* FindEventSection is mounted
  searchTerm,     \* the searchTerm state of FindEventSection
  \* ---- redux counter store (node script) ----
  counterState,   \* the state of the store: the counter
  listeners,      \* the subscribed listeners (0 or 1: counterSubscriber)
  consoleLog,     \* what counterSubscriber has logged: the states it read
  nDispatches,    \* number of dispatch calls so far
  \* ---- cart reducers (10-advanced-state-management, 19-practice-project) ----
  shoppingCartState, \* state of useReducer(shoppingCartReducer, {items: []})
  shoppingCall,      \* the last call of shoppingCartReducer: what it was
                     \* given and what it left behind
  cart,              \* state of useReducer(cartReducer, {items: []})
  cartCall,          \* the last call of cartReducer; when it threw, the
                     \* provider is unmounted
  \* ---- shareMeal server action (26-next-foodies) ----
  sharePc,        \* "idle" | "saving" | "returned" | "redirected" | "rejected"
  shareForm,      \* the formData of the call
  shareEffects,   \* the calls made, in order: saveMeal, revalidatePath, redirect
  shareResult,    \* what shareMeal returned ("none" while it has not)
  \* ---- Quiz (12-effects-adv-prj) ----
  answerState,    \* "" | "answered" | "correct" | "wrong"
  userAnswers,    \* the userAnswers state
  questionTimer,  \* ms left on the setTimeout of QuestionTimer, -1: no timer
  answerTimers,   \* pending timers of handleSelectAnswer
  nAnswerTimers,  \* number of handleSelectAnswer calls so far
  quizCrashed,    \* Quiz() threw while rendering
  renderedAnswerState, \* answerState as of the last run of Quiz()
  renderedUserAnswers, \* userAnswers as of the last run of Quiz()
  quizRenderPending,   \* a state update of a timer callback is scheduled
                       \* and Quiz() has not re-run
  answeredFor,    \* answeredFor[i]: the question on screen when entry i of
                  \* userAnswers was added
  \* ---- SearchableList (29-react-patterns) ----
  inputValue,     \* event.target.value: the text in the search input
  listSearchTerm, \* the searchTerm state of SearchableList
  lastChange,     \* lastChange.current: a timer id, 0 for undefined and null
  debounceTimers, \* pending setTimeout timers: records [id, left]
  nKeystrokes,    \* number of handleChange calls so far
  quietMs,        \* time since the last keystroke, counted up to 500 ms
  bursts,         \* number of keystroke bursts begun
  termUpdates,    \* number of setSearchTerm calls
  \* ---- PlacePicker with localStorage (11-handling-side-effects) ----
  pickedPlaces,          \* the pickedPlaces state: the places by their ids
  selectedPlacesItem,    \* localStorage item "selectedPlaces": a JSON text
  pickerModalIsOpen,     \* the modalIsOpen state
  pickerSelectedPlace,   \* selectedPlace.current (0: undefined)
  pickerAvailablePlaces, \* the availablePlaces state
  modalChildren,         \* "always" | "whenOpen": when Modal renders its
                         \* children
  dialogTimers,          \* pending timers of DeleteConfirmation: [id, left]
  dialogTimer,           \* the timer of the effect that is in place (0: none)
  nDialogTimers,         \* number of timers set so far
  dialogLog,             \* the last timer callback that ran: the timer, whether
                         \* DeleteConfirmation was mounted, and the timer of
                         \* the effect in place at that moment
  \* ---- Signup form (signupAction) ----
  signupForm,      \* the formData of the last submission
  signupSubmitted, \* the form has been submitted
  formState,       \* the form state of useActionState
  \* ---- event detail route (22-react-router-advanced) ----
  eventsOnServer,  \* the ids of the events the backend holds
  deleteFetches,   \* pending delete requests: records [id, eventId]
  nActions,        \* number of action calls so far
  actionLog,       \* actionLog[i]: the event, the outcome of the i-th action
                   \* call, and what the backend answered to its request
  \* ---- Accordion (29-react-patterns) ----
  openItemId,      \* the openItemId state
  accordionCall    \* the last toggleItem call: its id and openItemId before

fetchVars == <<mounted, fetchFn, isFetching, error, fetchedData, inflight,
               nCalls, issued>>
apVars == <<apPc, apIsFetching, availablePlaces, apError>>
mealsVars == <<mealsPc, loadedMeals, unhandledRejections>>
placesVars == <<userPlaces, renderedUserPlaces, renderedErrorUpdatingPlaces,
                renderedModalIsOpen, renderPending, errorUpdatingPlaces,
                modalIsOpen, selectedPlace, updates, nUpdates, updateLog>>
queryVars == <<cache, subscribers, stats, inval, server, mutations, nMutations,
               editMounted, findMounted, searchTerm>>
reduxVars == <<counterState, listeners, consoleLog, nDispatches>>
cartVars == <<shoppingCartState, shoppingCall, cart, cartCall>>
shareVars == <<sharePc, shareForm, shareEffects, shareResult>>
quizVars == <<answerState, userAnswers, questionTimer, answerTimers, nAnswerTimers,
              quizCrashed, answeredFor, renderedAnswerState, renderedUserAnswers,
              quizRenderPending>>
listVars == <<inputValue, listSearchTerm, lastChange, debounceTimers, nKeystrokes,
              quietMs, bursts, termUpdates>>
pickerVars == <<pickedPlaces, selectedPlacesItem, pickerModalIsOpen,
                pickerSelectedPlace, pickerAvailablePlaces, modalChildren,
                dialogTimers, dialogTimer, nDialogTimers, dialogLog>>
signupVars == <<signupForm, signupSubmitted, formState>>
routeVars == <<eventsOnServer, deleteFetches, nActions, actionLog>>
accordionVars == <<openItemId, accordionCall>>
otherLessons == <<pickerVars, signupVars, routeVars, accordionVars>>
besidesPicker == <<signupVars, routeVars, accordionVars>>
besidesSignup == <<pickerVars, routeVars, accordionVars>>
besidesRoute == <<pickerVars, signupVars, accordionVars>>
besidesAccordion == <<pickerVars, signupVars, routeVars>>
fetchingLessons == <<fetchVars, apVars, mealsVars, placesVars, queryVars>>
vars == <<fetchVars, apVars, mealsVars, placesVars, queryVars,
          reduxVars, cartVars, shareVars, quizVars, listVars, otherLessons>>

(***************************************************************************)
(* useFetch(fetchFn, initialValue)                                         *)
(***************************************************************************)
\* initialValue; fetch function f resolves with the data f.
InitialValue == 0

\* A value the component using the hook passes to setFetchedData: data that
\* no fetch function returned.
ComponentData == -1

\* error.message || "Failed to fetch data."
ErrorObject(msg) == IF msg = "" THEN "Failed to fetch data." ELSE msg

\* The record of a fetchFn call, and the call a hook instance issued last.
NoCall == [hook |-> 0, fn |-> 0, status |-> "none"]
IssuedBy(h) == {i \in CallIds : issued[i].hook = h}
LatestOf(h) == IF IssuedBy(h) = {} THEN 0
               ELSE CHOOSE i \in IssuedBy(h) : \A j \in IssuedBy(h) : j <= i

\* const data = await fetchFn(): one call of the fetch function per effect run,
\* whatever else is pending.
CallFetchFn(h, f) ==
  /\ nCalls' = nCalls + 1
  /\ inflight' = inflight \cup {[id |-> nCalls + 1, hook |-> h, fn |-> f]}
  /\ issued' = [issued EXCEPT ![nCalls + 1] =
                  [hook |-> h, fn |-> f, status |-> "pending"]]

\* The effect: fetchData() up to its await.
fetchData(h, f) ==
  /\ isFetching' = [isFetching EXCEPT ![h] = "true"]
  /\ CallFetchFn(h, f)

\* A component using the hook mounts: the three useState calls, then the effect.
Mount(h, f) ==
  /\ ~mounted[h]
  /\ nCalls < MaxCalls
  /\ mounted' = [mounted EXCEPT ![h] = TRUE]
  /\ fetchFn' = [fetchFn EXCEPT ![h] = f]
  /\ error' = [error EXCEPT ![h] = Undefined]
  /\ fetchedData' = [fetchedData EXCEPT ![h] = InitialValue]
  /\ fetchData(h, f)
  /\ UNCHANGED <<apVars, mealsVars, placesVars, queryVars>>
  /\ UNCHANGED <<reduxVars, cartVars, shareVars, quizVars, listVars, otherLessons>>

\* The component re-renders with another fetchFn: the dependency array
\* [fetchFn] changed, so the effect runs again.
ChangeFetchFn(h, f) ==
  /\ mounted[h]
  /\ f # fetchFn[h]
  /\ nCalls < MaxCalls
  /\ fetchFn' = [fetchFn EXCEPT ![h] = f]
  /\ fetchData(h, f)
  /\ UNCHANGED <<mounted, error, fetchedData>>
  /\ UNCHANGED <<apVars, mealsVars, placesVars, queryVars>>
  /\ UNCHANGED <<reduxVars, cartVars, shareVars, quizVars, listVars, otherLessons>>

\* await fetchFn() resolves: setFetchedData(data); setIsFetching(false).
FetchResolves(c) ==
  /\ c \in inflight
  /\ inflight' = inflight \ {c}
  /\ fetchedData' = [fetchedData EXCEPT ![c.hook] = c.fn]
  /\ isFetching' = [isFetching EXCEPT ![c.hook] = "false"]
  /\ issued' = [issued EXCEPT ![c.id].status = "success"]
  /\ UNCHANGED <<mounted, fetchFn, error, nCalls>>
  /\ UNCHANGED <<apVars, mealsVars, placesVars, queryVars>>
  /\ UNCHANGED <<reduxVars, cartVars, shareVars, quizVars, listVars, otherLessons>>

\* A variant in which the error replaces the data held so far.
FetchRejectsReplacingData(c, msg) ==
  /\ c \in inflight
  /\ inflight' = inflight \ {c}
  /\ error' = [error EXCEPT ![c.hook] = ErrorObject(msg)]
  /\ fetchedData' = [fetchedData EXCEPT ![c.hook] = InitialValue]
  /\ isFetching' = [isFetching EXCEPT ![c.hook] = "false"]
  /\ issued' = [issued EXCEPT ![c.id].status = "failure"]
  /\ UNCHANGED <<mounted, fetchFn, nCalls>>
  /\ UNCHANGED <<apVars, mealsVars, placesVars, queryVars>>
  /\ UNCHANGED <<reduxVars, cartVars, shareVars, quizVars, listVars, otherLessons>>

\* await fetchFn() rejects: setError({message}); setIsFetching(false).
FetchRejects(c, msg) ==
  /\ c \in inflight
  /\ inflight' = inflight \ {c}
  /\ error' = [error EXCEPT ![c.hook] = ErrorObject(msg)]
  /\ isFetching' = [isFetching EXCEPT ![c.hook] = "false"]
  /\ issued' = [issued EXCEPT ![c.id].status = "failure"]
  /\ UNCHANGED <<mounted, fetchFn, fetchedData, nCalls>>
  /\ UNCHANGED <<apVars, mealsVars, placesVars, queryVars>>
  /\ UNCHANGED <<reduxVars, cartVars, shareVars, quizVars, listVars, otherLessons>>

\* The component calls the setFetchedData the hook returns.
setFetchedData(h, value) ==
  /\ mounted[h]
  /\ fetchedData' = [fetchedData EXCEPT ![h] = value]
  /\ UNCHANGED <<mounted, fetchFn, isFetching, error, inflight, nCalls,
                 issued>>
  /\ UNCHANGED <<apVars, mealsVars, placesVars, queryVars>>
  /\ UNCHANGED <<reduxVars, cartVars, shareVars, quizVars, listVars, otherLessons>>

UseFetchMount == \E h \in Hooks, f \in FetchFns : Mount(h, f)
UseFetchSetData == \E h \in Hooks : setFetchedData(h, ComponentData)
UseFetchChange == \E h \in Hooks, f \in FetchFns : ChangeFetchFn(h, f)
UseFetchResolves == \E c \in inflight : FetchResolves(c)
UseFetchRejects == \E c \in inflight, msg \in ErrorMessages : FetchRejects(c, msg)

InitFetch ==
  /\ mounted = [h \in Hooks |-> FALSE]
  /\ fetchFn = [h \in Hooks |-> 0]
  /\ isFetching = [h \in Hooks |-> Undefined]
  /\ error = [h \in Hooks |-> Undefined]
  /\ fetchedData = [h \in Hooks |-> InitialValue]
  /\ inflight = {}
  /\ nCalls = 0
  /\ issued = [i \in CallIds |-> NoCall]

(***************************************************************************)
(* AvailablePlaces                                                         *)
(***************************************************************************)
\* resData.places as the backend sends them, and the same places ordered by
\* their distance to the user's position.
BackendPlaces == <<2, 1>>
sortPlacesByDistance(places) == <<1, 2>>

PlacesErrorMessages == {"", "Failed to fetch places."}

\* error.message || "Could not fetch places, please try again later"
PlacesErrorObject(msg) ==
  IF msg = "" THEN "Could not fetch places, please try again later" ELSE msg

\* Mount: useEffect(..., []) runs fetchPlaces() up to its await.
APMount ==
  /\ apPc = "unmounted"
  /\ apPc' = "fetching"
  /\ apIsFetching' = TRUE
  /\ UNCHANGED <<availablePlaces, apError>>
  /\ UNCHANGED <<fetchVars, mealsVars, placesVars, queryVars>>
  /\ UNCHANGED <<reduxVars, cartVars, shareVars, quizVars, listVars, otherLessons>>

\* fetchAvailablePlaces() resolves: getCurrentPosition(callback) is called and
\* fetchPlaces returns; isFetching stays true until the callback runs.
APFetchResolves ==
  /\ apPc = "fetching"
  /\ apPc' = "locating"
  /\ UNCHANGED <<apIsFetching, availablePlaces, apError>>
  /\ UNCHANGED <<fetchVars, mealsVars, placesVars, queryVars>>
  /\ UNCHANGED <<reduxVars, cartVars, shareVars, quizVars, listVars, otherLessons>>

\* The geolocation success callback.
APPositionCallback ==
  /\ apPc = "locating"
  /\ apPc' = "done"
  /\ availablePlaces' = sortPlacesByDistance(BackendPlaces)
  /\ apIsFetching' = FALSE
  /\ UNCHANGED apError
  /\ UNCHANGED <<fetchVars, mealsVars, placesVars, queryVars>>
  /\ UNCHANGED <<reduxVars, cartVars, shareVars, quizVars, listVars, otherLessons>>

\* The position cannot be obtained (the user denies the permission, the
\* device has no position): getCurrentPosition was given no error callback,
\* so nothing runs.
APPositionUnavailable ==
  /\ apPc = "locating"
  /\ apPc' = "unlocated"
  /\ UNCHANGED <<apIsFetching, availablePlaces, apError>>
  /\ UNCHANGED <<fetchVars, mealsVars, placesVars, queryVars>>
  /\ UNCHANGED <<reduxVars, cartVars, shareVars, quizVars, listVars, otherLessons>>

\* fetchAvailablePlaces() rejects: the catch block.
APFetchRejects(msg) ==
  /\ apPc = "fetching"
  /\ apPc' = "failed"
  /\ apError' = PlacesErrorObject(msg)
  /\ apIsFetching' = FALSE
  /\ UNCHANGED availablePlaces
  /\ UNCHANGED <<fetchVars, mealsVars, placesVars, queryVars>>
  /\ UNCHANGED <<reduxVars, cartVars, shareVars, quizVars, listVars, otherLessons>>

APRejects == \E msg \in PlacesErrorMessages : APFetchRejects(msg)

InitAP ==
  /\ apPc = "unmounted"
  /\ apIsFetching = FALSE
  /\ availablePlaces = <<>>
  /\ apError = Undefined

(***************************************************************************)
(* Meals                                                                   *)
(***************************************************************************)
\* The meals of the backend's response.
BackendMeals == <<"m1", "m2">>

\* Mount: useEffect(..., []) calls fetchMeals(), which runs up to its await.
\* The promise fetchMeals() returns is dropped: no catch, no then.
MealsMount ==
  /\ mealsPc = "unmounted"
  /\ mealsPc' = "fetching"
  /\ UNCHANGED <<loadedMeals, unhandledRejections>>
  /\ UNCHANGED <<fetchVars, apVars, placesVars, queryVars>>
  /\ UNCHANGED <<reduxVars, cartVars, shareVars, quizVars, listVars, otherLessons>>

\* fetch() resolves with a response: not ok throws inside fetchMeals, which
\* rejects its promise; ok calls response.json() and awaits it.
MealsFetchResolves(ok) ==
  /\ mealsPc = "fetching"
  /\ IF ok
       THEN /\ mealsPc' = "parsing"
            /\ UNCHANGED <<loadedMeals, unhandledRejections>>
       ELSE /\ mealsPc' = "rejected"
            /\ unhandledRejections' = unhandledRejections + 1
            /\ UNCHANGED loadedMeals
  /\ UNCHANGED <<fetchVars, apVars, placesVars, queryVars>>
  /\ UNCHANGED <<reduxVars, cartVars, shareVars, quizVars, listVars, otherLessons>>

\* await response.json() resolves: setLoadedMeals(meals).
MealsJsonResolves ==
  /\ mealsPc = "parsing"
  /\ mealsPc' = "done"
  /\ loadedMeals' = BackendMeals
  /\ UNCHANGED unhandledRejections
  /\ UNCHANGED <<fetchVars, apVars, placesVars, queryVars>>
  /\ UNCHANGED <<reduxVars, cartVars, shareVars, quizVars, listVars, otherLessons>>

\* await response.json() rejects (the body is not JSON): fetchMeals rejects.
MealsJsonRejects ==
  /\ mealsPc = "parsing"
  /\ mealsPc' = "rejected"
  /\ unhandledRejections' = unhandledRejections + 1
  /\ UNCHANGED loadedMeals
  /\ UNCHANGED <<fetchVars, apVars, placesVars, queryVars>>
  /\ UNCHANGED <<reduxVars, cartVars, shareVars, quizVars, listVars, otherLessons>>

\* fetch() itself rejects (the request could not be sent): fetchMeals rejects.
MealsFetchRejects ==
  /\ mealsPc = "fetching"
  /\ mealsPc' = "rejected"
  /\ unhandledRejections' = unhandledRejections + 1
  /\ UNCHANGED loadedMeals
  /\ UNCHANGED <<fetchVars, apVars, placesVars, queryVars>>
  /\ UNCHANGED <<reduxVars, cartVars, shareVars, quizVars, listVars, otherLessons>>

MealsResponse == \E ok \in BOOLEAN : MealsFetchResolves(ok)

InitMeals ==
  /\ mealsPc = "unmounted"
  /\ loadedMeals = <<>>
  /\ unhandledRejections = 0

(***************************************************************************)
(* PlacePicker App: optimistic place selection with rollback               *)
(***************************************************************************)
Contains(list, id) == \E i \in DOMAIN list : list[i] = id
Without(list, id) == SelectSeq(list, LAMBDA x : x # id)

UpdateErrorMessages == {"", "Failed to update user places."}

\* error.message || "Failed to update places."
UpdateErrorObject(msg) == IF msg = "" THEN "Failed to update places." ELSE msg

\* error.message || "Failed to delete place."
DeleteErrorObject(msg) == IF msg = "" THEN "Failed to delete place." ELSE msg

NoUpdate == [kind |-> "none", place |-> 0, prePatch |-> <<>>, sent |-> <<>>,
             patched |-> <<>>, status |-> "none"]

\* The updater function handleSelectPlace passes to setUserPlaces.
AddPlace(prevPickedPlaces, id) ==
  IF Contains(prevPickedPlaces, id) THEN prevPickedPlaces
  ELSE <<id>> \o prevPickedPlaces

\* The catch block of handleSelectPlace: setUserPlaces(userPlaces) with the
\* userPlaces of the render the handler belongs to, and the error state.
\* The updates are made outside an event handler: App() re-runs later.
Rollback(u, msg) ==
  /\ userPlaces' = u.closure
  /\ errorUpdatingPlaces' = UpdateErrorObject(msg)
  /\ renderPending' = TRUE

\* A click on an available place: handleSelectPlace(selectedPlace) up to its
\* await. The state update of a click is rendered before the next event.
handleSelectPlace(id) ==
  /\ apPc = "done"
  /\ Contains(availablePlaces, id)
  /\ nUpdates < MaxUpdates
  /\ userPlaces' = AddPlace(userPlaces, id)
  /\ renderedUserPlaces' = userPlaces'
  /\ renderedErrorUpdatingPlaces' = errorUpdatingPlaces
  /\ renderedModalIsOpen' = modalIsOpen
  /\ renderPending' = FALSE
  /\ nUpdates' = nUpdates + 1
  /\ updates' = updates \cup
       {[id |-> nUpdates + 1, kind |-> "select", place |-> id,
         closure |-> renderedUserPlaces]}
  /\ updateLog' = [updateLog EXCEPT ![nUpdates + 1] =
       [kind |-> "select", place |-> id, prePatch |-> userPlaces,
        sent |-> <<id>> \o renderedUserPlaces,
        patched |-> userPlaces', status |-> "pending"]]
  /\ UNCHANGED <<errorUpdatingPlaces, modalIsOpen, selectedPlace>>
  /\ UNCHANGED <<fetchVars, apVars, mealsVars, queryVars>>
  /\ UNCHANGED <<reduxVars, cartVars, shareVars, quizVars, listVars, otherLessons>>

\* await updateUserPlaces(...) resolves: handleSelectPlace returns.
UpdateResolves(u) ==
  /\ u \in updates
  /\ u.kind = "select"
  /\ updates' = updates \ {u}
  /\ updateLog' = [updateLog EXCEPT ![u.id].status = "success"]
  /\ UNCHANGED <<userPlaces, renderedUserPlaces, renderedErrorUpdatingPlaces,
                 renderedModalIsOpen, renderPending, errorUpdatingPlaces,
                 modalIsOpen, selectedPlace, nUpdates>>
  /\ UNCHANGED <<fetchVars, apVars, mealsVars, queryVars>>
  /\ UNCHANGED <<reduxVars, cartVars, shareVars, quizVars, listVars, otherLessons>>

\* await updateUserPlaces(...) rejects: the catch block.
UpdateRejects(u, msg) ==
  /\ u \in updates
  /\ u.kind = "select"
  /\ updates' = updates \ {u}
  /\ updateLog' = [updateLog EXCEPT ![u.id].status = "failure"]
  /\ Rollback(u, msg)
  /\ UNCHANGED <<renderedUserPlaces, renderedErrorUpdatingPlaces, renderedModalIsOpen,
                 modalIsOpen, selectedPlace, nUpdates>>
  /\ UNCHANGED <<fetchVars, apVars, mealsVars, queryVars>>
  /\ UNCHANGED <<reduxVars, cartVars, shareVars, quizVars, listVars, otherLessons>>

\* React runs App() again for the updates made outside an event handler.
Render ==
  /\ renderPending
  /\ renderPending' = FALSE
  /\ renderedUserPlaces' = userPlaces
  /\ renderedErrorUpdatingPlaces' = errorUpdatingPlaces
  /\ renderedModalIsOpen' = modalIsOpen
  /\ UNCHANGED <<userPlaces, errorUpdatingPlaces, modalIsOpen, selectedPlace,
                 updates, nUpdates, updateLog>>
  /\ UNCHANGED <<fetchVars, apVars, mealsVars, queryVars>>
  /\ UNCHANGED <<reduxVars, cartVars, shareVars, quizVars, listVars, otherLessons>>

\* The error dialog on screen is confirmed or closed:
\* setErrorUpdatingPlaces(null). The dialog is the one of the last render,
\* whatever has been scheduled since.
handleError ==
  /\ renderedErrorUpdatingPlaces \notin {Undefined, "null"}
  /\ errorUpdatingPlaces' = "null"
  /\ renderedUserPlaces' = userPlaces
  /\ renderedErrorUpdatingPlaces' = "null"
  /\ renderedModalIsOpen' = modalIsOpen
  /\ renderPending' = FALSE
  /\ UNCHANGED <<userPlaces, modalIsOpen, selectedPlace, updates, nUpdates,
                 updateLog>>
  /\ UNCHANGED <<fetchVars, apVars, mealsVars, queryVars>>
  /\ UNCHANGED <<reduxVars, cartVars, shareVars, quizVars, listVars, otherLessons>>

\* A click on one of the user places on screen: setModalIsOpen(true) and
\* selectedPlace.current = place, whatever the state is. (Modal.jsx is not
\* among the sources; the page behind a dialog is taken to stay clickable,
\* here as for the available places.)
handleStartRemovePlace(id) ==
  /\ Contains(renderedUserPlaces, id)
  /\ modalIsOpen' = TRUE
  /\ selectedPlace' = id
  /\ renderedUserPlaces' = userPlaces
  /\ renderedErrorUpdatingPlaces' = errorUpdatingPlaces
  /\ renderedModalIsOpen' = TRUE
  /\ renderPending' = FALSE
  /\ UNCHANGED <<userPlaces, errorUpdatingPlaces, updates, nUpdates, updateLog>>
  /\ UNCHANGED <<fetchVars, apVars, mealsVars, queryVars>>
  /\ UNCHANGED <<reduxVars, cartVars, shareVars, quizVars, listVars, otherLessons>>

\* No in the delete dialog on screen, or the dialog is closed:
\* setModalIsOpen(false). The dialog is the one of the last render.
handleStopRemovePlace ==
  /\ renderedModalIsOpen
  /\ modalIsOpen' = FALSE
  /\ renderedUserPlaces' = userPlaces
  /\ renderedErrorUpdatingPlaces' = errorUpdatingPlaces
  /\ renderedModalIsOpen' = FALSE
  /\ renderPending' = FALSE
  /\ UNCHANGED <<userPlaces, errorUpdatingPlaces, selectedPlace, updates, nUpdates,
                 updateLog>>
  /\ UNCHANGED <<fetchVars, apVars, mealsVars, queryVars>>
  /\ UNCHANGED <<reduxVars, cartVars, shareVars, quizVars, listVars, otherLessons>>

\* Yes in the delete dialog on screen: handleRemovePlace() up to its await.
\* The place is filtered out of the state, and the request carries the
\* userPlaces of the render the handler belongs to without the place.
\* modalIsOpen is left as it is until the request is settled.
handleRemovePlace ==
  /\ renderedModalIsOpen
  /\ nUpdates < MaxUpdates
  /\ userPlaces' = Without(userPlaces, selectedPlace)
  /\ renderedUserPlaces' = userPlaces'
  /\ renderedErrorUpdatingPlaces' = errorUpdatingPlaces
  /\ renderedModalIsOpen' = modalIsOpen
  /\ renderPending' = FALSE
  /\ nUpdates' = nUpdates + 1
  /\ updates' = updates \cup
       {[id |-> nUpdates + 1, kind |-> "remove", place |-> selectedPlace,
         closure |-> renderedUserPlaces]}
  /\ updateLog' = [updateLog EXCEPT ![nUpdates + 1] =
       [kind |-> "remove", place |-> selectedPlace, prePatch |-> userPlaces,
        sent |-> Without(renderedUserPlaces, selectedPlace),
        patched |-> userPlaces', status |-> "pending"]]
  /\ UNCHANGED <<errorUpdatingPlaces, modalIsOpen, selectedPlace>>
  /\ UNCHANGED <<fetchVars, apVars, mealsVars, queryVars>>
  /\ UNCHANGED <<reduxVars, cartVars, shareVars, quizVars, listVars, otherLessons>>

\* await updateUserPlaces(...) of handleRemovePlace resolves:
\* setModalIsOpen(false), outside an event handler.
RemoveResolves(u) ==
  /\ u \in updates
  /\ u.kind = "remove"
  /\ updates' = updates \ {u}
  /\ updateLog' = [updateLog EXCEPT ![u.id].status = "success"]
  /\ modalIsOpen' = FALSE
  /\ renderPending' = (renderPending \/ modalIsOpen)
  /\ UNCHANGED <<userPlaces, renderedUserPlaces, renderedErrorUpdatingPlaces,
                 renderedModalIsOpen, errorUpdatingPlaces, selectedPlace, nUpdates>>
  /\ UNCHANGED <<fetchVars, apVars, mealsVars, queryVars>>
  /\ UNCHANGED <<reduxVars, cartVars, shareVars, quizVars, listVars, otherLessons>>

\* await updateUserPlaces(...) of handleRemovePlace rejects: the catch block
\* sets userPlaces to the list of the handler's render and the error; then
\* setModalIsOpen(false).
RemoveRejects(u, msg) ==
  /\ u \in updates
  /\ u.kind = "remove"
  /\ updates' = updates \ {u}
  /\ updateLog' = [updateLog EXCEPT ![u.id].status = "failure"]
  /\ userPlaces' = u.closure
  /\ errorUpdatingPlaces' = DeleteErrorObject(msg)
  /\ modalIsOpen' = FALSE
  /\ renderPending' = TRUE
  /\ UNCHANGED <<renderedUserPlaces, renderedErrorUpdatingPlaces, renderedModalIsOpen,
                 selectedPlace, nUpdates>>
  /\ UNCHANGED <<fetchVars, apVars, mealsVars, queryVars>>
  /\ UNCHANGED <<reduxVars, cartVars, shareVars, quizVars, listVars, otherLessons>>

SelectPlace == \E id \in {1, 2} : handleSelectPlace(id)
UpdateSucceeds == \E u \in updates : UpdateResolves(u)
UpdateFails == \E u \in updates, msg \in UpdateErrorMessages : UpdateRejects(u, msg)
StartRemovePlace == \E id \in {1, 2} : handleStartRemovePlace(id)
RemoveSucceeds == \E u \in updates : RemoveResolves(u)
RemoveFails == \E u \in updates, msg \in UpdateErrorMessages : RemoveRejects(u, msg)

InitPlaces ==
  /\ userPlaces = <<>>
  /\ renderedUserPlaces = <<>>
  /\ renderedErrorUpdatingPlaces = Undefined
  /\ renderedModalIsOpen = FALSE
  /\ renderPending = FALSE
  /\ errorUpdatingPlaces = Undefined
  /\ modalIsOpen = FALSE
  /\ selectedPlace = 0
  /\ updates = {}
  /\ nUpdates = 0
  /\ updateLog = [i \in UpdateIds |-> NoUpdate]

(***************************************************************************)
(* Tanstack Query lesson: the query cache                                  *)
(***************************************************************************)
\* The query keys of the lesson: ["events", {max: 3}] (NewEventsSection),
\* ["events", id] (EditEvent) and ["events", {search: searchTerm}]
\* (FindEventSection, once a search term is entered).
Keys == {"list", "detail", "search"}

\* No data (undefined); the data of the backend are versions 0, 1, 2, ...
Absent == -1

\* staleTime of NewEventsSection, the default staleTime, and the default
\* gcTime of 5 minutes (ms): no query of the lesson sets a gcTime, the option
\* of NewEventsSection is commented out.
NewEventsStaleTime == 5000
DefaultStaleTime == 0
GcTime == 300000

\* The staleTime option of the query of each key.
\* A variant in which no query sets a staleTime.
StaleTimeAlwaysDefault(k) == DefaultStaleTime

StaleTimeOf(k) == IF k = "list" THEN NewEventsStaleTime ELSE DefaultStaleTime

Min(a, b) == IF a <= b THEN a ELSE b

\* A key without a CacheEntry.
NoEntry == [present |-> FALSE, data |-> Absent, error |-> FALSE, age |-> -1,
            status |-> "idle", idle |-> 0]

\* age: now - fetchedAt, counted up to the largest staleTime; -1 when there is
\* no fetchedAt. idle: the time since the last observer detached, counted up
\* to gcTime.
IsFresh(e, staleAfter) ==
  e.present /\ e.data # Absent /\ e.age >= 0 /\ e.age < staleAfter

\* query(key, fetchFn, options) of an enabled query starts a fetch when the
\* entry is stale or absent and no request is in flight.
StartsFetch(e, staleAfter) == ~IsFresh(e, staleAfter) /\ e.status # "fetching"

QueryEntry(e, staleAfter) ==
  IF StartsFetch(e, staleAfter)
    THEN [e EXCEPT !.present = TRUE, !.status = "fetching"]
    ELSE [e EXCEPT !.present = TRUE]

\* On fetch success: write data, clear error, status = success, fetchedAt = now.
FetchSuccessEntry(e, d) ==
  [e EXCEPT !.data = d, !.error = FALSE, !.status = "success", !.age = 0]

\* On fetch failure: set error, status = error; prior data is preserved.
FetchFailureEntry(e) == [e EXCEPT !.error = TRUE, !.status = "error"]

\* The status of an entry no request is in flight for.
SettledStatus(e) ==
  IF e.data # Absent THEN "success" ELSE IF e.error THEN "error" ELSE "idle"

\* queryClient.cancelQueries: a pending request is cancelled, its result is
\* not applied.
CancelQueries(e) ==
  IF e.status = "fetching" THEN [e EXCEPT !.status = SettledStatus(e)] ELSE e

\* queryClient.setQueryData / CacheStore.set: merges the data, updates
\* fetchedAt. Data undefined is not written.
SetQueryData(e, d) ==
  IF d = Absent THEN e
  ELSE [e EXCEPT !.present = TRUE, !.data = d, !.age = 0,
                 !.status = IF e.status = "fetching" THEN "fetching" ELSE "success"]

\* queryClient.invalidateQueries: the entry is marked stale (it loses its
\* fetchedAt), so that the next query finds it stale. A request in flight
\* is left alone.
InvalidateEntry(e) ==
  IF e.present THEN [e EXCEPT !.age = -1] ELSE e

\* What inval[k] records of the last invalidation by a successful mutation:
\* window, whether the freshness window of the entry was still open ("fresh")
\* or not ("elapsed"); inflight, whether a request for the key was in flight;
\* and next, what the next query for the key has done ("awaited" before it,
\* then "refetched" or "served").
NoInval == [window |-> "none", inflight |-> FALSE, next |-> "none"]

InvalMark(e, k) ==
  [window |-> IF IsFresh(e, StaleTimeOf(k)) THEN "fresh" ELSE "elapsed",
   inflight |-> e.status = "fetching",
   next |-> "awaited"]

\* What stats[k] records: the queries for the key, the calls of its fetch
\* function, the queries answered from the cache and the age of the entry at
\* the last of them.
NoStats == [queries |-> 0, fetchCalls |-> 0, hits |-> 0, servedAt |-> -1]

\* A query for key k by one of its observers (a mount, a refocus).
Query(k) ==
  /\ stats[k].queries < MaxQueries
  /\ cache' = [cache EXCEPT ![k] = QueryEntry(@, StaleTimeOf(k))]
  /\ stats' = [stats EXCEPT
       ![k].queries = @ + 1,
       ![k].fetchCalls = IF StartsFetch(cache[k], StaleTimeOf(k)) THEN @ + 1 ELSE @,
       ![k].hits = IF IsFresh(cache[k], StaleTimeOf(k)) THEN @ + 1 ELSE @,
       ![k].servedAt = IF IsFresh(cache[k], StaleTimeOf(k)) THEN cache[k].age ELSE @]
  /\ inval' = [inval EXCEPT ![k].next =
       IF @ = "awaited"
         THEN (IF StartsFetch(cache[k], StaleTimeOf(k)) THEN "refetched" ELSE "served")
         ELSE @]

\* subscribe(key, observerId) / unsubscribe(handle).
Subscribe(k) ==
  subscribers' = [subscribers EXCEPT ![k] = @ + 1]

Unsubscribe(k) ==
  subscribers' = [subscribers EXCEPT ![k] = @ - 1]

\* ---- components that observe a key ----
othersUnchangedByQuery == <<fetchVars, apVars, mealsVars, placesVars,
                           reduxVars, cartVars, shareVars, quizVars, listVars,
                           otherLessons>>

\* NewEventsSection mounts: useQuery subscribes and queries ["events", {max: 3}].
NewEventsSectionMount ==
  /\ subscribers["list"] < MaxObservers
  /\ Subscribe("list")
  /\ Query("list")
  /\ UNCHANGED <<server, mutations, nMutations, editMounted, findMounted, searchTerm>>
  /\ UNCHANGED othersUnchangedByQuery

\* A mounted observer queries again (the window is refocused).
Refocus(k) ==
  /\ subscribers[k] > 0
  /\ Query(k)
  /\ UNCHANGED <<subscribers, server, mutations, nMutations, editMounted,
                 findMounted, searchTerm>>
  /\ UNCHANGED othersUnchangedByQuery

\* An observer leaves. When it was the last one, the retention time of the
\* entry starts, and a request in flight is aborted: every queryFn of the
\* lesson hands the signal it is given to the request, and the library
\* cancels such a query as its last observer is removed and puts the entry
\* back to what it was before the fetch.
Detach(k) ==
  /\ Unsubscribe(k)
  /\ cache' = [cache EXCEPT ![k] =
       IF subscribers[k] = 1 THEN [CancelQueries(@) EXCEPT !.idle = 0] ELSE @]

NewEventsSectionUnmount ==
  /\ subscribers["list"] > 0
  /\ Detach("list")
  /\ UNCHANGED <<stats, inval, server, mutations, nMutations, editMounted,
                 findMounted, searchTerm>>
  /\ UNCHANGED othersUnchangedByQuery

\* EditEvent mounts: useQuery subscribes and queries ["events", id].
EditEventMount ==
  /\ ~editMounted
  /\ editMounted' = TRUE
  /\ Subscribe("detail")
  /\ Query("detail")
  /\ UNCHANGED <<server, mutations, nMutations, findMounted, searchTerm>>
  /\ UNCHANGED othersUnchangedByQuery

\* handleClose: navigate("../") unmounts EditEvent.
EditEventClose ==
  /\ editMounted
  /\ editMounted' = FALSE
  /\ Detach("detail")
  /\ UNCHANGED <<stats, inval, server, mutations, nMutations, findMounted, searchTerm>>
  /\ UNCHANGED othersUnchangedByQuery

\* The pending request of key k resolves with the backend's data.
FetchSucceeds(k) ==
  /\ cache[k].status = "fetching"
  /\ cache' = [cache EXCEPT ![k] = FetchSuccessEntry(@, server[k])]
  /\ UNCHANGED <<subscribers, stats, inval, server, mutations, nMutations,
                 editMounted, findMounted, searchTerm>>
  /\ UNCHANGED othersUnchangedByQuery

\* The pending request of key k rejects.
FetchFails(k) ==
  /\ cache[k].status = "fetching"
  /\ cache' = [cache EXCEPT ![k] = FetchFailureEntry(@)]
  /\ UNCHANGED <<subscribers, stats, inval, server, mutations, nMutations,
                 editMounted, findMounted, searchTerm>>
  /\ UNCHANGED othersUnchangedByQuery

\* TickMs pass.
TickEntry(e, subs) ==
  [e EXCEPT !.age = IF @ >= 0 THEN Min(@ + TickMs, NewEventsStaleTime) ELSE @,
            !.idle = IF e.present /\ subs = 0 THEN Min(@ + TickMs, GcTime) ELSE @]

Tick ==
  /\ \E k \in Keys : cache[k].present
  /\ cache' = [k \in Keys |-> TickEntry(cache[k], subscribers[k])]
  /\ cache' # cache
  /\ UNCHANGED <<subscribers, stats, inval, server, mutations, nMutations,
                 editMounted, findMounted, searchTerm>>
  /\ UNCHANGED othersUnchangedByQuery

\* The garbage collector's sweep deletes an entry nobody observes whose
\* retention time has passed.
\* A variant that does not wait for the retention time.
CollectableAtOnce(e, subs) == e.present /\ subs = 0

Collectable(e, subs) == e.present /\ subs = 0 /\ e.idle >= GcTime

GarbageCollect(k) ==
  /\ Collectable(cache[k], subscribers[k])
  /\ cache' = [cache EXCEPT ![k] = NoEntry]
  /\ UNCHANGED <<subscribers, stats, inval, server, mutations, nMutations,
                 editMounted, findMounted, searchTerm>>
  /\ UNCHANGED othersUnchangedByQuery

QueryRefocus == \E k \in Keys : Refocus(k)
QueryFetchSucceeds == \E k \in Keys : FetchSucceeds(k)
QueryFetchFails == \E k \in Keys : FetchFails(k)
QueryGarbageCollect == \E k \in Keys : GarbageCollect(k)

(***************************************************************************)
(* Tanstack Query lesson: the mutations of EditEvent and NewEvent          *)
(***************************************************************************)
\* onMutate of EditEvent after its await of cancelQueries: getQueryData for
\* the rollback, then setQueryData with the new event.
previousEventOf(e) == e.data

onMutate(e, newEvent) == SetQueryData(e, newEvent)

\* onError of EditEvent: setQueryData(["events", id], context.previousEvent).
onError(e, context) == SetQueryData(e, context.previousEvent)

\* onSettled of EditEvent: invalidateQueries(["events", id]). The argument is
\* a bare array, not a filters object with a queryKey: the filter names no
\* key and matches every query, so onSettled is applied to every entry.
onSettled(e) == InvalidateEntry(e)

\* A variant of onSuccess that leaves the cache as it is.
onSuccessWithoutInvalidation(e) == e

\* onSuccess of NewEvent: invalidateQueries({queryKey: ["events"]}), which
\* matches every key of the lesson.
onSuccess(e) == InvalidateEntry(e)

\* handleSubmit of EditEvent: mutate({id, event: formData}) registers the
\* mutation and returns at once; navigate("../") unmounts EditEvent, whose
\* observer of ["events", id] leaves. The form is rendered only when the
\* query has data. The new event is identified by the number of the
\* mutation.
EditSubmit ==
  /\ editMounted
  /\ cache["detail"].data # Absent
  /\ nMutations < MaxMutations
  /\ nMutations' = nMutations + 1
  /\ mutations' = mutations \cup
       {[id |-> nMutations + 1, kind |-> "edit", phase |-> "submitted",
         previousEvent |-> Absent]}
  /\ editMounted' = FALSE
  /\ Detach("detail")
  /\ UNCHANGED <<stats, inval, server, findMounted, searchTerm>>
  /\ UNCHANGED othersUnchangedByQuery

\* The library calls onMutate, which runs up to its await:
\* queryClient.cancelQueries({queryKey: ["events", id]}).
EditOnMutateCalled(m) ==
  /\ m \in mutations /\ m.kind = "edit" /\ m.phase = "submitted"
  /\ mutations' = (mutations \ {m}) \cup {[m EXCEPT !.phase = "cancelling"]}
  /\ cache' = [cache EXCEPT !["detail"] = CancelQueries(@)]
  /\ UNCHANGED <<subscribers, stats, inval, server, nMutations, editMounted,
                 findMounted, searchTerm>>
  /\ UNCHANGED othersUnchangedByQuery

\* onMutate continues after the await: the snapshot is taken, the new event
\* is written, and {previousEvent} is returned as the context.
EditOnMutateResumes(m) ==
  /\ m \in mutations /\ m.kind = "edit" /\ m.phase = "cancelling"
  /\ mutations' = (mutations \ {m}) \cup
       {[m EXCEPT !.phase = "patched",
                  !.previousEvent = previousEventOf(cache["detail"])]}
  /\ cache' = [cache EXCEPT !["detail"] = onMutate(@, m.id)]
  /\ UNCHANGED <<subscribers, stats, inval, server, nMutations, editMounted,
                 findMounted, searchTerm>>
  /\ UNCHANGED othersUnchangedByQuery

\* onMutate has returned: mutationFn, updateEvent, sends the request.
EditRequestSent(m) ==
  /\ m \in mutations /\ m.kind = "edit" /\ m.phase = "patched"
  /\ mutations' = (mutations \ {m}) \cup {[m EXCEPT !.phase = "sent"]}
  /\ UNCHANGED <<cache, subscribers, stats, inval, server, nMutations, editMounted,
                 findMounted, searchTerm>>
  /\ UNCHANGED othersUnchangedByQuery

\* updateEvent resolves: the backend holds the new event; onSettled.
EditSucceeds(m) ==
  /\ m \in mutations /\ m.kind = "edit" /\ m.phase = "sent"
  /\ mutations' = mutations \ {m}
  /\ server' = [server EXCEPT !["detail"] = m.id]
  /\ cache' = [k \in Keys |-> onSettled(cache[k])]
  /\ inval' = [k \in Keys |->
       IF cache[k].present THEN InvalMark(cache[k], k) ELSE inval[k]]
  /\ UNCHANGED <<subscribers, stats, nMutations, editMounted, findMounted, searchTerm>>
  /\ UNCHANGED othersUnchangedByQuery

\* updateEvent rejects: onError, then onSettled.
EditFails(m) ==
  /\ m \in mutations /\ m.kind = "edit" /\ m.phase = "sent"
  /\ mutations' = mutations \ {m}
  /\ cache' = [k \in Keys |->
       onSettled(IF k = "detail" THEN onError(cache[k], m) ELSE cache[k])]
  /\ UNCHANGED <<subscribers, stats, inval, server, nMutations, editMounted,
                 findMounted, searchTerm>>
  /\ UNCHANGED othersUnchangedByQuery

\* handleSubmit of NewEvent: mutate({event: formData}) sends createNewEvent.
NewEventSubmit ==
  /\ nMutations < MaxMutations
  /\ nMutations' = nMutations + 1
  /\ mutations' = mutations \cup
       {[id |-> nMutations + 1, kind |-> "create", phase |-> "sent",
         previousEvent |-> Absent]}
  /\ UNCHANGED <<cache, subscribers, stats, inval, server, editMounted,
                 findMounted, searchTerm>>
  /\ UNCHANGED othersUnchangedByQuery

\* createNewEvent resolves: the lists of the backend hold the new event;
\* onSuccess invalidates every query whose key starts with "events" (its
\* navigate("/events") changes the route only).
NewEventSucceeds(m) ==
  /\ m \in mutations /\ m.kind = "create"
  /\ mutations' = mutations \ {m}
  /\ server' = [server EXCEPT !["list"] = m.id, !["search"] = m.id]
  /\ cache' = [k \in Keys |-> onSuccess(cache[k])]
  /\ inval' = [k \in Keys |->
       IF cache[k].present THEN InvalMark(cache[k], k) ELSE inval[k]]
  /\ UNCHANGED <<subscribers, stats, nMutations, editMounted, findMounted, searchTerm>>
  /\ UNCHANGED othersUnchangedByQuery

\* createNewEvent rejects: useMutation reports the error, the cache is not
\* touched.
NewEventFails(m) ==
  /\ m \in mutations /\ m.kind = "create"
  /\ mutations' = mutations \ {m}
  /\ UNCHANGED <<cache, subscribers, stats, inval, server, nMutations,
                 editMounted, findMounted, searchTerm>>
  /\ UNCHANGED othersUnchangedByQuery

EditEventOnMutate == \E m \in mutations : EditOnMutateCalled(m)
EditEventPatched == \E m \in mutations : EditOnMutateResumes(m)
EditEventSent == \E m \in mutations : EditRequestSent(m)
EditEventSucceeds == \E m \in mutations : EditSucceeds(m)
EditEventFails == \E m \in mutations : EditFails(m)
NewEventCreated == \E m \in mutations : NewEventSucceeds(m)
NewEventRejected == \E m \in mutations : NewEventFails(m)

(***************************************************************************)
(* Tanstack Query lesson: FindEventSection                                 *)
(***************************************************************************)
SearchTerms == {"react"}

\* enabled: searchTerm !== undefined
FindEnabled == searchTerm # Undefined

\* What useQuery returns to FindEventSection: the entry of its key, and for
\* a disabled query an entry without data that is not fetched.
FindEntry == IF FindEnabled THEN cache["search"] ELSE NoEntry

\* isPending is true as long as the query has no data, also while it is
\* disabled; isLoading is true only while a first fetch is running.
isPending(e) == e.data = Absent /\ ~e.error
isLoading(e) == isPending(e) /\ e.status = "fetching"
isError(e) == e.data = Absent /\ e.error

\* content of FindEventSection as first written, with isPending.
FindContent ==
  IF FindEntry.data # Absent THEN "events-list"
  ELSE IF isError(FindEntry) THEN "ErrorBlock"
  ELSE IF isPending(FindEntry) THEN "LoadingIndicator"
  ELSE "prompt"

\* content of FindEventSection as rewritten, with isLoading.
FindContentRewritten ==
  IF FindEntry.data # Absent THEN "events-list"
  ELSE IF isError(FindEntry) THEN "ErrorBlock"
  ELSE IF isLoading(FindEntry) THEN "LoadingIndicator"
  ELSE "prompt"

\* FindEventSection mounts: useState() and a disabled query.
FindMount ==
  /\ ~findMounted
  /\ findMounted' = TRUE
  /\ searchTerm' = Undefined
  /\ UNCHANGED <<cache, subscribers, stats, inval, server, mutations, nMutations,
                 editMounted>>
  /\ UNCHANGED othersUnchangedByQuery

\* handleSubmit: setSearchTerm(searchElement.current.value) enables the
\* query, which subscribes and queries its key.
FindSubmit(term) ==
  /\ findMounted
  /\ searchTerm # term
  /\ searchTerm' = term
  /\ Subscribe("search")
  /\ Query("search")
  /\ UNCHANGED <<server, mutations, nMutations, editMounted, findMounted>>
  /\ UNCHANGED othersUnchangedByQuery

FindUnmount ==
  /\ findMounted
  /\ findMounted' = FALSE
  /\ searchTerm' = Undefined
  /\ IF FindEnabled
       THEN Detach("search")
       ELSE UNCHANGED <<cache, subscribers>>
  /\ UNCHANGED <<stats, inval, server, mutations, nMutations, editMounted>>
  /\ UNCHANGED othersUnchangedByQuery

FindSearch == \E term \in SearchTerms : FindSubmit(term)

InitQuery ==
  /\ cache = [k \in Keys |-> NoEntry]
  /\ subscribers = [k \in Keys |-> 0]
  /\ stats = [k \in Keys |-> NoStats]
  /\ inval = [k \in Keys |-> NoInval]
  /\ server = [k \in Keys |-> 0]
  /\ mutations = {}
  /\ nMutations = 0
  /\ editMounted = FALSE
  /\ findMounted = FALSE
  /\ searchTerm = Undefined

(***************************************************************************)
(* redux counter store                                                     *)
(***************************************************************************)
ActionTypes == {"increment", "decrement", "reset"}

\* counterReducer(state = {counter: 0}, action)
counterReducer(state, action) ==
  IF action = "increment" THEN state + 1
  ELSE IF action = "decrement" THEN state - 1
  ELSE state

\* counterSubscriber: const latestState = store.getState(); console.log(latestState)
counterSubscriber(log, storeState) == Append(log, storeState)

\* store.subscribe(counterSubscriber)
subscribe ==
  /\ listeners = 0
  /\ listeners' = 1
  /\ UNCHANGED <<counterState, consoleLog, nDispatches>>
  /\ UNCHANGED <<fetchingLessons, cartVars, shareVars, quizVars, listVars, otherLessons>>

\* A variant of dispatch that calls the listeners before it stores the state
\* the reducer returned.
dispatchNotifyingFirst(action) ==
  /\ nDispatches < MaxDispatches
  /\ nDispatches' = nDispatches + 1
  /\ counterState' = counterReducer(counterState, action)
  /\ consoleLog' = IF listeners > 0
                     THEN counterSubscriber(consoleLog, counterState)
                     ELSE consoleLog
  /\ UNCHANGED listeners
  /\ UNCHANGED <<fetchingLessons, cartVars, shareVars, quizVars, listVars, otherLessons>>

\* store.dispatch(action): the reducer produces the next state, the store
\* keeps it, then every listener is called.
dispatch(action) ==
  /\ nDispatches < MaxDispatches
  /\ nDispatches' = nDispatches + 1
  /\ counterState' = counterReducer(counterState, action)
  /\ consoleLog' = IF listeners > 0
                     THEN counterSubscriber(consoleLog, counterState')
                     ELSE consoleLog
  /\ UNCHANGED listeners
  /\ UNCHANGED <<fetchingLessons, cartVars, shareVars, quizVars, listVars, otherLessons>>

Dispatch == \E action \in ActionTypes : dispatch(action)

\* createStore(counterReducer): the reducer is called once with an action
\* it does not know and state undefined, which yields {counter: 0}.
InitRedux ==
  /\ counterState = 0
  /\ listeners = 0
  /\ consoleLog = <<>>
  /\ nDispatches = 0

(***************************************************************************)
(* Cart reducers                                                           *)
(***************************************************************************)
ProductIds == 1..NumProducts

\* findIndex: the index of the first item with the id, 0 when there is none
\* (JavaScript: -1; the sequences here are indexed from 1).
FindIndex(items, id) ==
  IF \E i \in DOMAIN items : items[i].id = id
    THEN CHOOSE i \in DOMAIN items :
           items[i].id = id /\ \A j \in DOMAIN items : items[j].id = id => i <= j
    ELSE 0

\* updatedItems.splice(index, 1)
Splice(items, index) ==
  [i \in 1..(Len(items) - 1) |-> IF i < index THEN items[i] ELSE items[i + 1]]

\* An action object: its type and its payload, which is a product id
\* (kind "id"), an object {productId, amount} (kind "update") or undefined
\* (kind "none").
NoPayload == [kind |-> "none", productId |-> 0, amount |-> 0]
IdPayload(id) == [kind |-> "id", productId |-> id, amount |-> 0]
UpdatePayload(id, amount) == [kind |-> "update", productId |-> id, amount |-> amount]

\* The actions dispatched by handleAddItemToCart and
\* handleUpdateCartItemQuantity, and actions of a type the reducer does not
\* know.
ShoppingCartActions ==
  {[type |-> "ADD_ITEM", payload |-> IdPayload(id)] : id \in ProductIds}
  \cup {[type |-> t, payload |-> UpdatePayload(id, amount)] :
          t \in {"UPDATE_ITEM", "CLEAR_CART"}, id \in ProductIds, amount \in {-1, 1}}
  \cup {[type |-> "CLEAR_CART", payload |-> NoPayload]}

\* The state {items: [...]}; stray tells that the items array carries a
\* property "-1" next to its elements. The items keep id and quantity (name
\* and price are copied from the product and never change).
EmptyCart == [items |-> <<>>, stray |-> FALSE]

\* What a call of a reducer yields: the state it returned, whether that is
\* the very object it was given, the action object as the call left it, and
\* whether the call threw instead of returning.
Returned(state, same, action) ==
  [state |-> state, sameObject |-> same, action |-> action, threw |-> FALSE]
Threw(state, action) ==
  [state |-> state, sameObject |-> TRUE, action |-> action, threw |-> TRUE]

\* The ADD_ITEM branch of shoppingCartReducer.
ShoppingAddItem(state, action) ==
  LET index == FindIndex(state.items, action.payload.productId)
      updatedItems ==
        IF index > 0
          THEN [state.items EXCEPT ![index].quantity = @ + 1]
          ELSE Append(state.items, [id |-> action.payload.productId, quantity |-> 1])
  IN Returned([items |-> updatedItems, stray |-> FALSE], FALSE, action)

\* The UPDATE_ITEM branch of shoppingCartReducer, entered with the action
\* as assigned by the condition of the if statement. Without a payload
\* action.payload.productId throws; for an id that is not in the cart the
\* quantity is NaN, which is not <= 0, and the item is stored at index -1.
ShoppingUpdateItem(state, action) ==
  LET index == FindIndex(state.items, action.payload.productId)
      quantity == state.items[index].quantity + action.payload.amount
  IN IF action.payload.kind = "none" THEN Threw(state, action)
     ELSE IF index = 0 \/ action.payload.kind = "id"
       THEN Returned([items |-> state.items, stray |-> TRUE], FALSE, action)
     ELSE IF quantity <= 0
       THEN Returned([items |-> Splice(state.items, index), stray |-> FALSE],
                     FALSE, action)
     ELSE Returned([items |-> [state.items EXCEPT ![index].quantity = quantity],
                    stray |-> FALSE], FALSE, action)

\* shoppingCartReducer(state, action). The second condition is the
\* assignment action.type = "UPDATE_ITEM", whose value is truthy: the branch
\* is taken for every action that is not ADD_ITEM, and return state is not
\* reached.
shoppingCartReducer(state, action) ==
  IF action.type = "ADD_ITEM" THEN ShoppingAddItem(state, action)
  ELSE ShoppingUpdateItem(state, [action EXCEPT !.type = "UPDATE_ITEM"])

\* shoppingCartDispatch(action): React calls the reducer with the current
\* state while it renders the provider. A reducer that throws leaves the
\* state as it is and makes the render fail: the tree is unmounted, and no
\* dispatch after that has an effect.
ShoppingCartDispatch(action) ==
  LET result == shoppingCartReducer(shoppingCartState, action)
  IN /\ ~shoppingCall.result.threw
     /\ \A i \in DOMAIN result.state.items :
          result.state.items[i].quantity <= MaxQuantity
     /\ shoppingCartState' = result.state
     /\ shoppingCall' = [given |-> action, before |-> shoppingCartState,
                         result |-> result]
     /\ UNCHANGED <<cart, cartCall>>
     /\ UNCHANGED <<fetchingLessons, reduxVars, shareVars, quizVars, listVars, otherLessons>>

\* The actions of addItem and removeItem, and an action of another type;
\* action.item and action.id are the payload.
CartActions ==
  {[type |-> t, payload |-> IdPayload(id)] :
     t \in {"ADD_ITEM", "REMOVE_ITEM"}, id \in ProductIds}
  \cup {[type |-> "CLEAR_CART", payload |-> NoPayload]}

\* A cartReducer that pushes every added item, also when the cart already
\* holds one with its id.
cartReducerAlwaysPushing(state, action) ==
  LET index == FindIndex(state.items, action.payload.productId)
  IN IF action.type = "ADD_ITEM"
       THEN Returned(
              [items |-> Append(state.items,
                                [id |-> action.payload.productId, quantity |-> 1]),
               stray |-> FALSE], FALSE, action)
     ELSE IF action.type = "REMOVE_ITEM"
       THEN IF index = 0 THEN Threw(state, action)
            ELSE IF state.items[index].quantity = 1
              THEN Returned([items |-> Splice(state.items, index), stray |-> FALSE],
                            FALSE, action)
            ELSE Returned([items |-> [state.items EXCEPT ![index].quantity = @ - 1],
                           stray |-> FALSE], FALSE, action)
     ELSE Returned(state, TRUE, action)

\* cartReducer(state, action). REMOVE_ITEM of an item that is not in the
\* cart reads existingCartItem.quantity of undefined, which throws.
cartReducer(state, action) ==
  LET index == FindIndex(state.items, action.payload.productId)
  IN IF action.type = "ADD_ITEM"
       THEN Returned(
              [items |-> IF index > 0
                           THEN [state.items EXCEPT ![index].quantity = @ + 1]
                           ELSE Append(state.items,
                                       [id |-> action.payload.productId, quantity |-> 1]),
               stray |-> FALSE], FALSE, action)
     ELSE IF action.type = "REMOVE_ITEM"
       THEN IF index = 0 THEN Threw(state, action)
            ELSE IF state.items[index].quantity = 1
              THEN Returned([items |-> Splice(state.items, index), stray |-> FALSE],
                            FALSE, action)
            ELSE Returned([items |-> [state.items EXCEPT ![index].quantity = @ - 1],
                           stray |-> FALSE], FALSE, action)
     ELSE Returned(state, TRUE, action)

\* dispatchCartAction(action): the reducer runs in the render of
\* CartContextProvider. When it throws, the render fails and the tree is
\* unmounted: no addItem or removeItem after that has an effect.
CartDispatch(action) ==
  LET result == cartReducer(cart, action)
  IN /\ ~cartCall.result.threw
     /\ \A i \in DOMAIN result.state.items :
          result.state.items[i].quantity <= MaxQuantity
     /\ cart' = result.state
     /\ cartCall' = [given |-> action, before |-> cart, result |-> result]
     /\ UNCHANGED <<shoppingCartState, shoppingCall>>
     /\ UNCHANGED <<fetchingLessons, reduxVars, shareVars, quizVars, listVars, otherLessons>>

NoReducerCall ==
  [given |-> [type |-> "", payload |-> NoPayload], before |-> EmptyCart,
   result |-> Returned(EmptyCart, TRUE, [type |-> "", payload |-> NoPayload])]

ShoppingCartDispatches == \E action \in ShoppingCartActions : ShoppingCartDispatch(action)
CartDispatches == \E action \in CartActions : CartDispatch(action)

InitCart ==
  /\ shoppingCartState = EmptyCart
  /\ shoppingCall = NoReducerCall
  /\ cart = EmptyCart
  /\ cartCall = NoReducerCall

(***************************************************************************)
(* shareMeal server action                                                 *)
(***************************************************************************)
RECURSIVE SeqsUpTo(_, _)
\* The sequences over a set of characters of length at most n.
SeqsUpTo(chars, n) ==
  IF n = 0 THEN {<<>>}
  ELSE LET shorter == SeqsUpTo(chars, n - 1)
       IN shorter \cup {Append(s, c) : s \in shorter, c \in chars}

\* What formData.get(name) returns for a text field: null when the form has
\* no such field, else its text.
NullField == [null |-> TRUE, chars |-> <<>>]
TextField(chars) == [null |-> FALSE, chars |-> chars]

\* The texts tried for title, summary, instructions and name: no field,
\* empty, blanks only, and a text with blanks around it.
TextValues == {NullField, TextField(<<>>), TextField(<<" ", " ">>),
               TextField(<<" ", "a", " ">>)}
EmailValues == {NullField} \cup {TextField(s) : s \in SeqsUpTo({" ", "a", "@"}, MaxEmailLen)}

\* formData.get("image"): null, or a File with its size.
ImageValues == {[null |-> TRUE, size |-> 0], [null |-> FALSE, size |-> 0],
                [null |-> FALSE, size |-> 1]}

RECURSIVE TrimStart(_)
TrimStart(s) == IF s # <<>> /\ Head(s) = " " THEN TrimStart(Tail(s)) ELSE s

RECURSIVE TrimEnd(_)
TrimEnd(s) ==
  IF s # <<>> /\ s[Len(s)] = " " THEN TrimEnd(SubSeq(s, 1, Len(s) - 1)) ELSE s

\* text.trim()
Trim(s) == TrimEnd(TrimStart(s))

\* text.includes("@")
Includes(s, c) == \E i \in DOMAIN s : s[i] = c

\* isInvalidText(text): !text || text.trim() === ""
isInvalidText(text) == text.null \/ text.chars = <<>> \/ Trim(text.chars) = <<>>

\* A variant of the validation that does not look at the e-mail address.
IsInvalidInputIgnoringEmail(meal) ==
  \/ isInvalidText(meal.title)
  \/ isInvalidText(meal.summary)
  \/ isInvalidText(meal.instructions)
  \/ isInvalidText(meal.creator)
  \/ meal.image.null
  \/ meal.image.size = 0

\* The condition of the if statement of shareMeal.
IsInvalidInput(meal) ==
  \/ isInvalidText(meal.title)
  \/ isInvalidText(meal.summary)
  \/ isInvalidText(meal.instructions)
  \/ isInvalidText(meal.creator)
  \/ isInvalidText(meal.creator_email)
  \/ ~Includes(meal.creator_email.chars, "@")
  \/ meal.image.null
  \/ meal.image.size = 0

\* shareMeal(prevState, formData) up to its return or its await.
shareMeal(formData) ==
  /\ sharePc = "idle"
  /\ shareForm' = formData
  /\ IF IsInvalidInput(formData)
       THEN /\ sharePc' = "returned"
            /\ shareResult' = "Invalid input"
            /\ UNCHANGED shareEffects
       ELSE /\ sharePc' = "saving"
            /\ shareEffects' = Append(shareEffects, "saveMeal")
            /\ UNCHANGED shareResult
  /\ UNCHANGED <<fetchingLessons, reduxVars, cartVars, quizVars, listVars, otherLessons>>

\* await saveMeal(meal) resolves: revalidatePath("/meals"), redirect("/meals").
SaveMealResolves ==
  /\ sharePc = "saving"
  /\ sharePc' = "redirected"
  /\ shareEffects' = shareEffects \o <<"revalidatePath", "redirect">>
  /\ UNCHANGED <<shareForm, shareResult>>
  /\ UNCHANGED <<fetchingLessons, reduxVars, cartVars, quizVars, listVars, otherLessons>>

\* await saveMeal(meal) rejects: shareMeal rejects.
SaveMealRejects ==
  /\ sharePc = "saving"
  /\ sharePc' = "rejected"
  /\ UNCHANGED <<shareForm, shareEffects, shareResult>>
  /\ UNCHANGED <<fetchingLessons, reduxVars, cartVars, quizVars, listVars, otherLessons>>

\* The form of the share page is submitted.
ShareMealSubmit ==
  \E title \in TextValues, summary \in TextValues, instructions \in TextValues,
     creator \in TextValues, email \in EmailValues, image \in ImageValues :
    shareMeal([title |-> title, summary |-> summary, instructions |-> instructions,
               image |-> image, creator |-> creator, creator_email |-> email])

NoForm == [title |-> NullField, summary |-> NullField, instructions |-> NullField,
           image |-> [null |-> TRUE, size |-> 0], creator |-> NullField,
           creator_email |-> NullField]

InitShare ==
  /\ sharePc = "idle"
  /\ shareForm = NoForm
  /\ shareEffects = <<>>
  /\ shareResult = "none"

(***************************************************************************)
(* Quiz                                                                    *)
(***************************************************************************)
\* timeout={10000} of QuestionTimer and the delays of the two setTimeout
\* calls of handleSelectAnswer.
QuestionTimeout == 10000
AnswerDelay == 1000
ResetDelay == 2000

\* No setTimeout of QuestionTimer is pending.
NoTimer == -1

\* A selected answer: the first answer of the question (the correct one),
\* another answer, or null when the question was skipped.
Answers == {"first", "other"}

\* const activeQuestionIndex =
\*   answerState === "" ? userAnswers.length : userAnswers.length - 1
ActiveQuestionIndexOf(state, answers) ==
  IF state = "" THEN Len(answers) ELSE Len(answers) - 1

\* The activeQuestionIndex of the last run of Quiz(): the Question on screen,
\* and the index the handlers of that render close over.
activeQuestionIndex == ActiveQuestionIndexOf(renderedAnswerState, renderedUserAnswers)

\* const quizIsComplete = activeQuestionIndex === QUESTIONS.length
quizIsComplete == activeQuestionIndex = NumQuestions

\* QUESTIONS[index] exists.
QuestionExists(index) == index \in 0..(NumQuestions - 1)

\* Quiz() runs with the state as it is after the step. With the quiz
\* complete the summary replaces the Question; QUESTIONS[activeQuestionIndex]
\* .text of a question that does not exist throws and React removes the
\* component; a new activeQuestionIndex is a new key: a new Question whose
\* QuestionTimer starts its timer; with the same index the timer of
\* QuestionTimer goes on, because onTimeout is the same function.
RenderQuiz(timer) ==
  LET index == ActiveQuestionIndexOf(answerState', userAnswers')
  IN /\ renderedAnswerState' = answerState'
     /\ renderedUserAnswers' = userAnswers'
     /\ quizRenderPending' = FALSE
     /\ IF index = NumQuestions
          THEN /\ questionTimer' = NoTimer
               /\ UNCHANGED quizCrashed
        ELSE IF ~QuestionExists(index)
          THEN /\ questionTimer' = NoTimer
               /\ quizCrashed' = TRUE
        ELSE /\ questionTimer' = IF index # activeQuestionIndex
                                   THEN QuestionTimeout ELSE timer
             /\ UNCHANGED quizCrashed

\* handleSelectAnswer(selectedAnswer): the two state updates and the
\* setTimeout call; the callback of the timer closes over selectedAnswer and
\* the activeQuestionIndex of the render the handler belongs to.
handleSelectAnswer(selectedAnswer) ==
  /\ answerState' = "answered"
  /\ userAnswers' = Append(userAnswers, selectedAnswer)
  /\ answeredFor' = Append(answeredFor, activeQuestionIndex)
  /\ nAnswerTimers' = nAnswerTimers + 1
  /\ answerTimers' = answerTimers \cup
       {[id |-> nAnswerTimers + 1, phase |-> "check", left |-> AnswerDelay,
         selectedAnswer |-> selectedAnswer, index |-> activeQuestionIndex]}

\* A click on an answer of the question on screen; the updates of a click
\* are rendered before the next event. (Answers.jsx is not among the
\* sources; its buttons are taken to be clickable until an answer is
\* selected.)
SelectAnswer ==
  /\ ~quizCrashed
  /\ QuestionExists(activeQuestionIndex)
  /\ renderedAnswerState = ""
  /\ \E answer \in Answers : handleSelectAnswer(answer)
  /\ RenderQuiz(questionTimer)
  /\ UNCHANGED <<fetchingLessons, reduxVars, cartVars, shareVars, listVars, otherLessons>>

\* The timer of QuestionTimer expires: onTimeout(), which is
\* handleSkipAnswer: handleSelectAnswer(null). The updates are made in a
\* timer callback: Quiz() re-runs later.
QuestionTimerExpires ==
  /\ ~quizCrashed
  /\ questionTimer = 0
  /\ handleSelectAnswer("null")
  /\ questionTimer' = NoTimer
  /\ quizRenderPending' = TRUE
  /\ UNCHANGED <<quizCrashed, renderedAnswerState, renderedUserAnswers>>
  /\ UNCHANGED <<fetchingLessons, reduxVars, cartVars, shareVars, listVars, otherLessons>>

\* The first timer of handleSelectAnswer expires: "correct" or "wrong", and
\* the second timer is set. After Quiz has thrown, its state is gone and the
\* setters do nothing.
AnswerTimerExpires(t) ==
  /\ t \in answerTimers /\ t.phase = "check" /\ t.left = 0
  /\ answerTimers' = (answerTimers \ {t}) \cup
       {[t EXCEPT !.phase = "reset", !.left = ResetDelay]}
  /\ IF quizCrashed
       THEN UNCHANGED <<answerState, quizRenderPending>>
       ELSE /\ answerState' = IF t.selectedAnswer = "first" THEN "correct" ELSE "wrong"
            /\ quizRenderPending' = TRUE
  /\ UNCHANGED <<userAnswers, answeredFor, nAnswerTimers, questionTimer, quizCrashed,
                 renderedAnswerState, renderedUserAnswers>>
  /\ UNCHANGED <<fetchingLessons, reduxVars, cartVars, shareVars, listVars, otherLessons>>

\* The second timer expires: setAnswerState("").
ResetTimerExpires(t) ==
  /\ t \in answerTimers /\ t.phase = "reset" /\ t.left = 0
  /\ answerTimers' = answerTimers \ {t}
  /\ IF quizCrashed
       THEN UNCHANGED <<answerState, quizRenderPending>>
       ELSE /\ answerState' = ""
            /\ quizRenderPending' = TRUE
  /\ UNCHANGED <<userAnswers, answeredFor, nAnswerTimers, questionTimer, quizCrashed,
                 renderedAnswerState, renderedUserAnswers>>
  /\ UNCHANGED <<fetchingLessons, reduxVars, cartVars, shareVars, listVars, otherLessons>>

\* React runs Quiz() again for the updates made in timer callbacks: one
\* render for all the callbacks that have run since the last one.
QuizRender ==
  /\ quizRenderPending
  /\ ~quizCrashed
  /\ UNCHANGED <<answerState, userAnswers, answerTimers, nAnswerTimers, answeredFor>>
  /\ RenderQuiz(questionTimer)
  /\ UNCHANGED <<fetchingLessons, reduxVars, cartVars, shareVars, listVars, otherLessons>>

\* QuizTickMs pass; a timer that is due and a scheduled render run before
\* more time passes.
QuizTick ==
  /\ ~quizRenderPending
  /\ questionTimer # 0
  /\ \A t \in answerTimers : t.left # 0
  /\ questionTimer > 0 \/ answerTimers # {}
  /\ questionTimer' = IF questionTimer > 0
                        THEN (IF questionTimer > QuizTickMs
                                THEN questionTimer - QuizTickMs ELSE 0)
                        ELSE questionTimer
  /\ answerTimers' = {[t EXCEPT !.left = IF @ > QuizTickMs THEN @ - QuizTickMs ELSE 0] :
                        t \in answerTimers}
  /\ UNCHANGED <<answerState, userAnswers, nAnswerTimers, quizCrashed, answeredFor,
                 renderedAnswerState, renderedUserAnswers, quizRenderPending>>
  /\ UNCHANGED <<fetchingLessons, reduxVars, cartVars, shareVars, listVars, otherLessons>>

AnswerChecked == \E t \in answerTimers : AnswerTimerExpires(t)
AnswerReset == \E t \in answerTimers : ResetTimerExpires(t)

\* Quiz is mounted: no answers, the first question and its timer.
InitQuiz ==
  /\ answerState = ""
  /\ userAnswers = <<>>
  /\ questionTimer = QuestionTimeout
  /\ answerTimers = {}
  /\ nAnswerTimers = 0
  /\ quizCrashed = FALSE
  /\ answeredFor = <<>>
  /\ renderedAnswerState = ""
  /\ renderedUserAnswers = <<>>
  /\ quizRenderPending = FALSE

(***************************************************************************)
(* SearchableList                                                          *)
(***************************************************************************)
\* The delay of the setTimeout call of handleChange.
DebounceMs == 500

\* The texts the search input goes through while the user types.
InputValues == {"", "r", "re"}

\* A variant of handleChange without clearTimeout.
KeepPendingTimers(timers, ref) == timers

\* if (lastChange.current) { clearTimeout(lastChange.current) }; timer ids
\* are positive numbers, which are truthy; 0 stands for undefined and null,
\* which are not.
ClearPendingTimer(timers, ref) ==
  IF ref # 0
    THEN {t \in timers : t.id # ref}
    ELSE timers

\* handleChange(event): a keystroke has changed the text of the input to
\* value. The id of the new timer is the number of the keystroke.
handleChange(value) ==
  /\ nKeystrokes < MaxKeystrokes
  /\ value # inputValue
  /\ inputValue' = value
  /\ nKeystrokes' = nKeystrokes + 1
  /\ debounceTimers' = ClearPendingTimer(debounceTimers, lastChange) \cup
       {[id |-> nKeystrokes + 1, left |-> DebounceMs]}
  /\ lastChange' = nKeystrokes + 1
  /\ quietMs' = 0
  /\ bursts' = IF debounceTimers = {} THEN bursts + 1 ELSE bursts
  /\ UNCHANGED <<listSearchTerm, termUpdates>>
  /\ UNCHANGED <<fetchingLessons, reduxVars, cartVars, shareVars, quizVars, otherLessons>>

\* The callback of a timer: lastChange.current = null and
\* setSearchTerm(event.target.value), the text the input holds by then.
DebounceTimerExpires(t) ==
  /\ t \in debounceTimers /\ t.left = 0
  /\ debounceTimers' = debounceTimers \ {t}
  /\ lastChange' = 0
  /\ listSearchTerm' = inputValue
  /\ termUpdates' = termUpdates + 1
  /\ UNCHANGED <<inputValue, nKeystrokes, quietMs, bursts>>
  /\ UNCHANGED <<fetchingLessons, reduxVars, cartVars, shareVars, quizVars, otherLessons>>

\* KeyTickMs pass without a keystroke; a timer that is due runs before more
\* time passes.
KeyTick ==
  /\ debounceTimers # {}
  /\ \A t \in debounceTimers : t.left > 0
  /\ debounceTimers' = {[t EXCEPT !.left = IF @ > KeyTickMs THEN @ - KeyTickMs ELSE 0] :
                          t \in debounceTimers}
  /\ quietMs' = IF quietMs + KeyTickMs < DebounceMs THEN quietMs + KeyTickMs
                ELSE DebounceMs
  /\ UNCHANGED <<inputValue, listSearchTerm, lastChange, nKeystrokes, bursts, termUpdates>>
  /\ UNCHANGED <<fetchingLessons, reduxVars, cartVars, shareVars, quizVars, otherLessons>>

Keystroke == \E value \in InputValues : handleChange(value)
DebounceFires == \E t \in debounceTimers : DebounceTimerExpires(t)

\* SearchableList is mounted: useRef() and useState("").
InitList ==
  /\ inputValue = ""
  /\ listSearchTerm = ""
  /\ lastChange = 0
  /\ debounceTimers = {}
  /\ nKeystrokes = 0
  /\ quietMs = 0
  /\ bursts = 0
  /\ termUpdates = 0

(***************************************************************************)
(* PlacePicker with localStorage and DeleteConfirmation                    *)
(* (11-handling-side-effects)                                              *)
(***************************************************************************)
PickerPlaceIds == 1..NumPickerPlaces

\* const TIMER = 3000
TIMER == 3000

\* AVAILABLE_PLACES of data.js, a place standing for its id, and the same
\* places ordered by their distance to the user.
AVAILABLE_PLACES == [i \in PickerPlaceIds |-> i]
SortedAvailablePlaces == [i \in PickerPlaceIds |-> NumPickerPlaces + 1 - i]

\* localStorage.getItem of a key that was never set is null, which
\* JSON.parse reads as the text null.
NullItem == <<"null">>

\* JSON.stringify of an array of ids: the text as a sequence of tokens.
RECURSIVE JoinIds(_)
JoinIds(ids) ==
  IF ids = <<>> THEN <<>>
  ELSE IF Len(ids) = 1 THEN <<ToString(ids[1])>>
  ELSE <<ToString(ids[1]), ",">> \o JoinIds(Tail(ids))

JSONStringify(ids) == <<"[">> \o JoinIds(ids) \o <<"]">>

\* JSON.parse of such a text: null, or the array of the ids between the
\* brackets.
ParseId(token) == CHOOSE id \in PickerPlaceIds : ToString(id) = token

JSONParse(text) ==
  IF text = NullItem THEN [null |-> TRUE, list |-> <<>>]
  ELSE LET inner == SubSeq(text, 2, Len(text) - 1)
       IN [null |-> FALSE,
           list |-> [i \in 1..((Len(inner) + 1) \div 2) |-> ParseId(inner[2 * i - 1])]]

\* JSON.parse(localStorage.getItem("selectedPlaces")) || []
StoredIds(item) ==
  LET parsed == JSONParse(item) IN IF parsed.null THEN <<>> ELSE parsed.list

\* storedIds.map((id) => AVAILABLE_PLACES.find((place) => place.id === id))
StoredPlaces(item) ==
  LET storedIds == StoredIds(item)
  IN [i \in DOMAIN storedIds |->
        AVAILABLE_PLACES[CHOOSE k \in DOMAIN AVAILABLE_PLACES :
                           AVAILABLE_PLACES[k] = storedIds[i]]]

\* The storage update of handleSelectPlace without its indexOf check.
StoreSelectedUnchecked(item, id) == JSONStringify(<<id>> \o StoredIds(item))

\* The storage update of handleSelectPlace.
StoreSelected(item, id) ==
  IF ~Contains(StoredIds(item), id)
    THEN JSONStringify(<<id>> \o StoredIds(item))
    ELSE item

\* The storage update of handleRemovePlace; selectedPlace.current is
\* undefined (0) before the first handleStartRemovePlace.
StoreRemoved(item, id) == JSONStringify(Without(StoredIds(item), id))

\* The cleanup of the effect of DeleteConfirmation left out: the timer stays.
KeepDialogTimer(timers, timer) == timers

\* clearTimeout(timer)
ClearDialogTimer(timers, timer) == {t \in timers : t.id # timer}

NoTimeout == [timer |-> 0, mounted |-> TRUE, effect |-> 0]

\* What Modal does with its children: it renders them always, or only while
\* it is open. The component sets no state; which of the two it does is
\* fixed for a build of the app.
ModalChildren == {"always", "whenOpen"}

\* DeleteConfirmation is mounted: it is the child of Modal.
DialogMounted(children, open) == children = "always" \/ open

\* The success callback of getCurrentPosition in the effect of App.
PickerPositionCallback ==
  /\ pickerAvailablePlaces = <<>>
  /\ pickerAvailablePlaces' = SortedAvailablePlaces
  /\ UNCHANGED <<pickedPlaces, selectedPlacesItem, pickerModalIsOpen,
                 pickerSelectedPlace, dialogTimers, dialogTimer, nDialogTimers,
                 dialogLog>>
  /\ UNCHANGED <<fetchingLessons, reduxVars, cartVars, shareVars, quizVars, listVars>>
  /\ UNCHANGED <<modalChildren, besidesPicker>>

\* handleSelectPlace(id): a click on one of the available places.
PickerSelectPlace(id) ==
  /\ Contains(pickerAvailablePlaces, id)
  /\ pickedPlaces' = AddPlace(pickedPlaces, id)
  /\ selectedPlacesItem' = StoreSelected(selectedPlacesItem, id)
  /\ UNCHANGED <<pickerModalIsOpen, pickerSelectedPlace, pickerAvailablePlaces,
                 dialogTimers, dialogTimer, nDialogTimers, dialogLog>>
  /\ UNCHANGED <<fetchingLessons, reduxVars, cartVars, shareVars, quizVars, listVars>>
  /\ UNCHANGED <<modalChildren, besidesPicker>>

\* handleStartRemovePlace(id): a click on one of the picked places. When
\* this mounts DeleteConfirmation, its effect sets the timer; a
\* DeleteConfirmation that is mounted already is rendered again with the
\* same onConfirm, and its effect does not run.
PickerStartRemovePlace(id) ==
  /\ Contains(pickedPlaces, id)
  /\ pickerModalIsOpen' = TRUE
  /\ pickerSelectedPlace' = id
  /\ IF DialogMounted(modalChildren, pickerModalIsOpen)
       THEN UNCHANGED <<dialogTimers, dialogTimer, nDialogTimers>>
       ELSE /\ nDialogTimers < MaxDialogTimers
            /\ nDialogTimers' = nDialogTimers + 1
            /\ dialogTimer' = nDialogTimers + 1
            /\ dialogTimers' = dialogTimers \cup {[id |-> nDialogTimers + 1, left |-> TIMER]}
  /\ UNCHANGED <<pickedPlaces, selectedPlacesItem, pickerAvailablePlaces, dialogLog>>
  /\ UNCHANGED <<fetchingLessons, reduxVars, cartVars, shareVars, quizVars, listVars>>
  /\ UNCHANGED <<modalChildren, besidesPicker>>

\* handleStopRemovePlace: the user cancels. When this removes
\* DeleteConfirmation, the cleanup of its effect runs; a DeleteConfirmation
\* that stays mounted keeps its timer.
PickerStopRemovePlace ==
  /\ pickerModalIsOpen
  /\ pickerModalIsOpen' = FALSE
  /\ IF DialogMounted(modalChildren, FALSE)
       THEN UNCHANGED <<dialogTimers, dialogTimer>>
       ELSE /\ dialogTimers' = ClearDialogTimer(dialogTimers, dialogTimer)
            /\ dialogTimer' = 0
  /\ UNCHANGED <<pickedPlaces, selectedPlacesItem, pickerSelectedPlace,
                 pickerAvailablePlaces, nDialogTimers, dialogLog>>
  /\ UNCHANGED <<fetchingLessons, reduxVars, cartVars, shareVars, quizVars, listVars>>
  /\ UNCHANGED <<modalChildren, besidesPicker>>

\* handleRemovePlace(): the state update and the storage update. The modal
\* is not closed (setModalIsOpen(false) is commented out).
PickerRemovePlace ==
  /\ pickedPlaces' = Without(pickedPlaces, pickerSelectedPlace)
  /\ selectedPlacesItem' = StoreRemoved(selectedPlacesItem, pickerSelectedPlace)

\* A click on Yes: onConfirm().
PickerConfirm ==
  /\ pickerModalIsOpen
  /\ PickerRemovePlace
  /\ UNCHANGED <<pickerModalIsOpen, pickerSelectedPlace, pickerAvailablePlaces,
                 dialogTimers, dialogTimer, nDialogTimers, dialogLog>>
  /\ UNCHANGED <<fetchingLessons, reduxVars, cartVars, shareVars, quizVars, listVars>>
  /\ UNCHANGED <<modalChildren, besidesPicker>>

\* The callback of a timer of DeleteConfirmation runs: onConfirm().
DialogTimerExpires(t) ==
  /\ t \in dialogTimers
  /\ t.left = 0
  /\ dialogTimers' = dialogTimers \ {t}
  /\ dialogLog' = [timer |-> t.id,
                   mounted |-> DialogMounted(modalChildren, pickerModalIsOpen),
                   effect |-> dialogTimer]
  /\ PickerRemovePlace
  /\ UNCHANGED <<pickerModalIsOpen, pickerSelectedPlace, pickerAvailablePlaces,
                 dialogTimer, nDialogTimers>>
  /\ UNCHANGED <<fetchingLessons, reduxVars, cartVars, shareVars, quizVars, listVars>>
  /\ UNCHANGED <<modalChildren, besidesPicker>>

\* DialogTickMs pass; a timer that is due runs before more time passes.
DialogTick ==
  /\ dialogTimers # {}
  /\ \A t \in dialogTimers : t.left # 0
  /\ dialogTimers' = {[t EXCEPT !.left = IF @ > DialogTickMs THEN @ - DialogTickMs ELSE 0] :
                        t \in dialogTimers}
  /\ UNCHANGED <<pickedPlaces, selectedPlacesItem, pickerModalIsOpen,
                 pickerSelectedPlace, pickerAvailablePlaces, dialogTimer,
                 nDialogTimers, dialogLog>>
  /\ UNCHANGED <<fetchingLessons, reduxVars, cartVars, shareVars, quizVars, listVars>>
  /\ UNCHANGED <<modalChildren, besidesPicker>>

\* The page is loaded again: the module code reads the stored ids, App
\* starts with storedPlaces, and the timers of the old page are gone. A
\* DeleteConfirmation that is mounted with the closed modal sets its timer
\* in the first render.
PickerReload ==
  /\ pickedPlaces' = StoredPlaces(selectedPlacesItem)
  /\ pickerModalIsOpen' = FALSE
  /\ pickerSelectedPlace' = 0
  /\ pickerAvailablePlaces' = <<>>
  /\ IF DialogMounted(modalChildren, FALSE)
       THEN /\ nDialogTimers < MaxDialogTimers
            /\ nDialogTimers' = nDialogTimers + 1
            /\ dialogTimer' = nDialogTimers + 1
            /\ dialogTimers' = {[id |-> nDialogTimers + 1, left |-> TIMER]}
       ELSE /\ dialogTimers' = {}
            /\ dialogTimer' = 0
            /\ UNCHANGED nDialogTimers
  /\ UNCHANGED <<selectedPlacesItem, dialogLog>>
  /\ UNCHANGED <<fetchingLessons, reduxVars, cartVars, shareVars, quizVars, listVars>>
  /\ UNCHANGED <<modalChildren, besidesPicker>>

PickerSelect == \E id \in PickerPlaceIds : PickerSelectPlace(id)
PickerStartRemove == \E id \in PickerPlaceIds : PickerStartRemovePlace(id)
DialogTimeout == \E t \in dialogTimers : DialogTimerExpires(t)

InitPicker ==
  /\ selectedPlacesItem = NullItem
  /\ pickedPlaces = StoredPlaces(NullItem)
  /\ pickerModalIsOpen = FALSE
  /\ pickerSelectedPlace = 0
  /\ pickerAvailablePlaces = <<>>
  /\ modalChildren \in ModalChildren
  /\ IF DialogMounted(modalChildren, FALSE)
       THEN /\ dialogTimers = {[id |-> 1, left |-> TIMER]}
            /\ dialogTimer = 1
            /\ nDialogTimers = 1
       ELSE /\ dialogTimers = {}
            /\ dialogTimer = 0
            /\ nDialogTimers = 0
  /\ dialogLog = NoTimeout

(***************************************************************************)
(* signupAction (form action of the Signup component)                      *)
(***************************************************************************)
\* The text made of n times the character c.
Repeat(c, n) == [i \in 1..n |-> c]

\* The second argument of hasMinLength in signupAction.
PasswordMinLength == 8

\* util/validation.js
isEmail(value) == Includes(value, "@")
isNotEmpty(value) == Trim(value) # <<>>
hasMinLength(value, minLength) == Len(value) >= minLength
isEqualToOtherValue(value, otherValue) == value = otherValue

EmailError == "Invalid email address."
PasswordError == "You must provide a password with at least six characters."
MatchError == "Passwords do not match."
NameError == "Please provide both your first and last name."
RoleError == "Please select a role."
TermsError == "You must agree to the terms and conditions."
AcquisitionError == "Please select at least one acquistion channel."

\* The passwords tried: letters only and blanks only, of every length up to
\* MaxPasswordLen.
Passwords ==
  {Repeat("a", n) : n \in 0..MaxPasswordLen} \cup {Repeat(" ", n) : n \in 0..MaxPasswordLen}

\* The forms tried. formData.get("terms") is null for an unchecked box and
\* "on" for a checked one.
SignupForms ==
  [email : {<<"a", "@", "b">>, <<"a">>},
   password : Passwords,
   confirmPassword : Passwords,
   firstName : {<<"a">>, <<>>},
   lastName : {<<"b">>},
   role : {<<"s">>, <<>>},
   terms : {"on", "null"},
   acquisitionChannel : {<<>>, <<"google">>}]

\* errors.push(message) when the condition holds.
PushIf(condition, message) == IF condition THEN <<message>> ELSE <<>>

\* The errors array signupAction builds.
SignupErrors(formData) ==
  PushIf(~isEmail(formData.email), EmailError)
  \o PushIf(~isNotEmpty(formData.password)
              \/ ~hasMinLength(formData.password, PasswordMinLength), PasswordError)
  \o PushIf(~isEqualToOtherValue(formData.password, formData.confirmPassword), MatchError)
  \o PushIf(~isNotEmpty(formData.firstName) \/ ~isNotEmpty(formData.lastName), NameError)
  \o PushIf(~isNotEmpty(formData.role), RoleError)
  \o PushIf(formData.terms = "null", TermsError)
  \o PushIf(Len(formData.acquisitionChannel) = 0, AcquisitionError)

\* The form state {errors: null}.
NoErrors == [null |-> TRUE, errors |-> <<>>]

\* signupAction(prevFormState, formData): the form state it returns (the
\* entered values it returns along with the errors are the form data).
signupAction(prevFormState, formData) ==
  LET errors == SignupErrors(formData)
  IN IF Len(errors) > 0 THEN [null |-> FALSE, errors |-> errors] ELSE NoErrors

NoSignupForm ==
  [email |-> <<>>, password |-> <<>>, confirmPassword |-> <<>>, firstName |-> <<>>,
   lastName |-> <<>>, role |-> <<>>, terms |-> "null", acquisitionChannel |-> <<>>]

\* The form is submitted: useActionState calls signupAction with the
\* previous form state and keeps what it returns.
SignupSubmit ==
  \E formData \in SignupForms :
    /\ formData.confirmPassword \in {formData.password, <<"a">>}
    /\ signupForm' = formData
    /\ signupSubmitted' = TRUE
    /\ formState' = signupAction(formState, formData)
    /\ UNCHANGED <<fetchingLessons, reduxVars, cartVars, shareVars, quizVars, listVars>>
    /\ UNCHANGED besidesSignup

InitSignup ==
  /\ signupForm = NoSignupForm
  /\ signupSubmitted = FALSE
  /\ formState = NoErrors

(***************************************************************************)
(* action of the event detail route (22-react-router-advanced)             *)
(***************************************************************************)
EventIds == 1..NumEvents
ActionIds == 1..MaxActions

\* What the expression response.ok yields: the ok property of a Response,
\* and undefined for a promise, which has no such property.
PendingPromise == [kind |-> "promise", ok |-> "undefined"]
OkOf(response) == IF response.kind = "response" THEN response.ok ELSE Undefined

\* !value
Not(value) == value \in {"false", Undefined}

NoAction == [eventId |-> 0, outcome |-> "none", answer |-> "none"]

\* action({params, request}) of EventDetail.js: fetch is called and not awaited, so response
\* is the promise fetch returned. The outcome is "thrown" for the response
\* "Could not delete event." and "redirected" for redirect("/events").
detailAction(eventId) ==
  LET response == PendingPromise
  IN IF Not(OkOf(response)) THEN "thrown" ELSE "redirected"

\* The delete form of an event is submitted: the router calls action.
EventDetailAction ==
  \E eventId \in EventIds :
    /\ nActions < MaxActions
    /\ nActions' = nActions + 1
    /\ deleteFetches' = deleteFetches \cup {[id |-> nActions + 1, eventId |-> eventId]}
    /\ actionLog' = [actionLog EXCEPT ![nActions + 1] =
         [eventId |-> eventId, outcome |-> detailAction(eventId), answer |-> "pending"]]
    /\ UNCHANGED eventsOnServer
    /\ UNCHANGED <<fetchingLessons, reduxVars, cartVars, shareVars, quizVars, listVars>>
    /\ UNCHANGED besidesRoute

\* The backend answers a delete request: ok when it had the event, which it
\* removes, and not ok otherwise. No code of the action is left to run.
DeleteAnswered ==
  \E f \in deleteFetches :
    /\ deleteFetches' = deleteFetches \ {f}
    /\ eventsOnServer' = eventsOnServer \ {f.eventId}
    /\ actionLog' = [actionLog EXCEPT ![f.id].answer =
         IF f.eventId \in eventsOnServer THEN "ok" ELSE "not ok"]
    /\ UNCHANGED nActions
    /\ UNCHANGED <<fetchingLessons, reduxVars, cartVars, shareVars, quizVars, listVars>>
    /\ UNCHANGED besidesRoute

\* The request fails: the promise of fetch rejects, unobserved.
DeleteFetchRejects ==
  \E f \in deleteFetches :
    /\ deleteFetches' = deleteFetches \ {f}
    /\ actionLog' = [actionLog EXCEPT ![f.id].answer = "failed"]
    /\ UNCHANGED <<eventsOnServer, nActions>>
    /\ UNCHANGED <<fetchingLessons, reduxVars, cartVars, shareVars, quizVars, listVars>>
    /\ UNCHANGED besidesRoute

InitRoute ==
  /\ eventsOnServer = EventIds
  /\ deleteFetches = {}
  /\ nActions = 0
  /\ actionLog = [i \in ActionIds |-> NoAction]

(***************************************************************************)
(* Accordion (29-react-patterns)                                           *)
(***************************************************************************)
ItemIds == 1..NumAccordionItems

\* The values of openItemId: undefined (useState()), null, or an item id.
UndefinedItem == [kind |-> "undefined", id |-> 0]
NullItemId == [kind |-> "null", id |-> 0]
ItemId(id) == [kind |-> "id", id |-> id]

\* const isOpen = openItemId === id
isOpen(openId, id) == openId = ItemId(id)
OpenItems(openId) == {id \in ItemIds : isOpen(openId, id)}

\* An updater that keeps the item open when it is toggled again.
NextOpenItemIdNeverClosing(prevId, id) == ItemId(id)

\* The updater of toggleItem: (prevId) => (prevId === id ? null : id)
NextOpenItemId(prevId, id) == IF prevId = ItemId(id) THEN NullItemId ELSE ItemId(id)

NoToggle == [id |-> 0, before |-> UndefinedItem]

\* toggleItem(id): a click on the title of item id.
toggleItem(id) ==
  /\ openItemId' = NextOpenItemId(openItemId, id)
  /\ accordionCall' = [id |-> id, before |-> openItemId]
  /\ UNCHANGED <<fetchingLessons, reduxVars, cartVars, shareVars, quizVars, listVars>>
  /\ UNCHANGED besidesAccordion

ToggleItem == \E id \in ItemIds : toggleItem(id)

InitAccordion ==
  /\ openItemId = UndefinedItem
  /\ accordionCall = NoToggle

(***************************************************************************)
(* Specification of the fetching components                                *)
(***************************************************************************)
Init ==
  /\ InitFetch /\ InitAP /\ InitMeals /\ InitPlaces /\ InitQuery
  /\ InitRedux /\ InitCart /\ InitShare /\ InitQuiz /\ InitList
  /\ InitPicker /\ InitSignup /\ InitRoute /\ InitAccordion

\* The lessons other than the PlacePicker of 11-handling-side-effects never
\* change its variables: their specifications start from one build of it.
InitOneBuild == Init /\ modalChildren = "whenOpen"

Next ==
  \/ UseFetchMount
  \/ UseFetchChange
  \/ UseFetchResolves
  \/ UseFetchRejects
  \/ UseFetchSetData
  \/ APMount
  \/ APFetchResolves
  \/ APPositionCallback
  \/ APPositionUnavailable
  \/ APRejects
  \/ MealsMount
  \/ MealsResponse
  \/ MealsJsonResolves
  \/ MealsJsonRejects
  \/ MealsFetchRejects

Spec == InitOneBuild /\ [][Next]_vars

\* Every request is answered or fails, and the geolocation request ends one
\* way or the other.
SpecFair ==
  /\ Spec
  /\ WF_vars(UseFetchResolves \/ UseFetchRejects)
  /\ WF_vars(APFetchResolves \/ APRejects)
  /\ WF_vars(APPositionCallback \/ APPositionUnavailable)
  /\ WF_vars(MealsResponse \/ MealsFetchRejects)
  /\ WF_vars(MealsJsonResolves \/ MealsJsonRejects)

(***************************************************************************)
(* Specification of the PlacePicker App                                    *)
(***************************************************************************)
NextPlaces ==
  \/ APMount
  \/ APFetchResolves
  \/ APPositionCallback
  \/ APPositionUnavailable
  \/ APRejects
  \/ SelectPlace
  \/ UpdateSucceeds
  \/ UpdateFails
  \/ Render
  \/ handleError
  \/ StartRemovePlace
  \/ handleStopRemovePlace
  \/ handleRemovePlace
  \/ RemoveSucceeds
  \/ RemoveFails

SpecPlaces == InitOneBuild /\ [][NextPlaces]_vars

(***************************************************************************)
(* Specification of the Tanstack Query lesson                              *)
(***************************************************************************)
NextQuery ==
  \/ NewEventsSectionMount
  \/ NewEventsSectionUnmount
  \/ QueryRefocus
  \/ QueryFetchSucceeds
  \/ QueryFetchFails
  \/ Tick
  \/ QueryGarbageCollect
  \/ NewEventSubmit
  \/ NewEventCreated
  \/ NewEventRejected

SpecQuery == InitOneBuild /\ [][NextQuery]_vars

NextEdit ==
  \/ EditEventMount
  \/ EditEventClose
  \/ QueryRefocus
  \/ QueryFetchSucceeds
  \/ QueryFetchFails
  \/ Tick
  \/ QueryGarbageCollect
  \/ EditSubmit
  \/ EditEventOnMutate
  \/ EditEventPatched
  \/ EditEventSent
  \/ EditEventSucceeds
  \/ EditEventFails

SpecEdit == InitOneBuild /\ [][NextEdit]_vars

\* The events list, the edited event and both mutations, NewEvent and
\* EditEvent, within the staleTime of the events list.
NextMutations ==
  \/ NewEventsSectionMount
  \/ NewEventsSectionUnmount
  \/ EditEventMount
  \/ EditEventClose
  \/ QueryRefocus
  \/ QueryFetchSucceeds
  \/ QueryFetchFails
  \/ NewEventSubmit
  \/ NewEventCreated
  \/ NewEventRejected
  \/ EditSubmit
  \/ EditEventOnMutate
  \/ EditEventPatched
  \/ EditEventSent
  \/ EditEventSucceeds
  \/ EditEventFails

SpecMutations == InitOneBuild /\ [][NextMutations]_vars

NextFind ==
  \/ FindMount
  \/ FindSearch
  \/ FindUnmount
  \/ QueryRefocus
  \/ QueryFetchSucceeds
  \/ QueryFetchFails
  \/ Tick
  \/ QueryGarbageCollect

SpecFind == InitOneBuild /\ [][NextFind]_vars

(***************************************************************************)
(* Specifications of the other lessons                                     *)
(***************************************************************************)
NextRedux == subscribe \/ Dispatch

SpecRedux == InitOneBuild /\ [][NextRedux]_vars

NextCart == ShoppingCartDispatches \/ CartDispatches

SpecCart == InitOneBuild /\ [][NextCart]_vars

\* The cart of CartContextProvider alone: addItem and removeItem calls.
NextCartContext == CartDispatches

SpecCartContext == InitOneBuild /\ [][NextCartContext]_vars

NextShare == ShareMealSubmit \/ SaveMealResolves \/ SaveMealRejects

SpecShare == InitOneBuild /\ [][NextShare]_vars

NextQuiz ==
  \/ SelectAnswer
  \/ QuestionTimerExpires
  \/ AnswerChecked
  \/ AnswerReset
  \/ QuizRender
  \/ QuizTick

SpecQuiz == InitOneBuild /\ [][NextQuiz]_vars

NextList == Keystroke \/ DebounceFires \/ KeyTick

SpecList == InitOneBuild /\ [][NextList]_vars

\* Time passes and a timer that is due runs.
SpecListFair == SpecList /\ WF_vars(KeyTick) /\ WF_vars(DebounceFires)

NextPicker ==
  \/ PickerPositionCallback
  \/ PickerSelect
  \/ PickerStartRemove
  \/ PickerStopRemovePlace
  \/ PickerConfirm
  \/ DialogTimeout
  \/ DialogTick
  \/ PickerReload

SpecPicker == Init /\ [][NextPicker]_vars

NextSignup == SignupSubmit

SpecSignup == InitOneBuild /\ [][NextSignup]_vars

NextRoute ==
  \/ EventDetailAction
  \/ DeleteAnswered
  \/ DeleteFetchRejects

SpecRoute == InitOneBuild /\ [][NextRoute]_vars

\* The Accordion and the SearchableList of the patterns page.
NextAccordion ==
  \/ ToggleItem
  \/ Keystroke
  \/ DebounceFires
  \/ KeyTick

SpecAccordion == InitOneBuild /\ [][NextAccordion]_vars

(***************************************************************************)
(* Properties of the fetching components (checked under Spec)              *)
(***************************************************************************)
InFlightFor(f) == {c \in inflight : c.fn = f}

\* C1: for every fetch function (the key of a useFetch query) at most one
\* fetch is in flight at any time: consumers that query it before the first
\* call has resolved cause a single call.
C1_AtMostOneInFlightPerKey ==
  \A f \in FetchFns : Cardinality(InFlightFor(f)) <= 1

\* C6: whenever the fetch a hook issued last has completed successfully, the
\* hook's result has data (of a fetch, or set by the component since) and no
\* error.
C6_SuccessClearsError ==
  \A h \in Hooks :
    (LatestOf(h) # 0 /\ issued[LatestOf(h)].status = "success")
      => (fetchedData[h] \in FetchFns \cup {ComponentData} /\ error[h] = Undefined)

\* C7: the step in which a fetch fails sets error and leaves the data held
\* before it unchanged (useFetch and AvailablePlaces).
C7_FailureKeepsData ==
  [][ /\ \A i \in CallIds :
           (issued[i].status = "pending" /\ issued'[i].status = "failure") =>
             /\ fetchedData'[issued[i].hook] = fetchedData[issued[i].hook]
             /\ error'[issued[i].hook] # Undefined
      /\ (apPc = "fetching" /\ apPc' = "failed") =>
             /\ availablePlaces' = availablePlaces
             /\ apError' # Undefined
    ]_vars

\* A hook whose last fetch failed still shows the data of an earlier fetch,
\* next to the error; and AvailablePlaces has failed.
C7_Witness ==
  \E h \in Hooks :
    /\ LatestOf(h) # 0
    /\ issued[LatestOf(h)].status = "failure"
    /\ \A i \in IssuedBy(h) : issued[i].status # "pending"
    /\ fetchedData[h] \in FetchFns
    /\ error[h] # Undefined
    /\ apPc = "failed"

\* C8: every rejection ends in an error state the consumer can observe, and
\* no rejection is left without a handler.
C8_EveryRejectionObservable ==
  /\ \A i \in CallIds :
       issued[i].status = "failure" => error[issued[i].hook] # Undefined
  /\ apPc = "failed" => apError # Undefined
  /\ unhandledRejections = 0

\* C9: once the fetch a hook issued last has written its data, no fetch the
\* hook issued earlier overwrites it: the data is that of the last fetch,
\* unless the component has set it itself since.
C9_LateFetchNeverOverwrites ==
  \A h \in Hooks :
    (LatestOf(h) # 0 /\ issued[LatestOf(h)].status = "success"
       /\ fetchedData[h] # ComponentData)
      => fetchedData[h] = issued[LatestOf(h)].fn

(***************************************************************************)
(* Properties of the PlacePicker App (checked under SpecPlaces)            *)
(***************************************************************************)
\* C2: when the write of an optimistic place selection fails, the state
\* after the failure equals the state immediately before the optimistic patch.
C2_FailedMutationRestoresState ==
  [][ \A i \in UpdateIds :
        (/\ updateLog[i].kind = "select"
         /\ updateLog[i].status = "pending" /\ updateLog'[i].status = "failure")
          => userPlaces' = updateLog[i].prePatch ]_vars

C4_FreshEntryIsNotRefetched ==
  [][ \A k \in Keys :
        LET window == IF k = "list" THEN NewEventsStaleTime ELSE DefaultStaleTime
        IN (/\ cache[k].present /\ cache[k].data # Absent
            /\ cache[k].age >= 0 /\ cache[k].age < window
            /\ stats'[k].queries = stats[k].queries + 1)
             => /\ stats'[k].fetchCalls = stats[k].fetchCalls
                /\ cache'[k].status # "fetching"
                /\ cache'[k].data = cache[k].data ]_vars

\* C4: the events list was queried a second time TickMs after its data
\* arrived and was answered from the cache: one call of the fetch function
\* in total.
C4_Witness ==
  /\ stats["list"].queries = 2
  /\ stats["list"].fetchCalls = 1
  /\ stats["list"].hits = 1
  /\ stats["list"].servedAt = TickMs
  /\ TickMs < NewEventsStaleTime

\* C5: a cache entry is removed only when no subscriber observes its key
\* and at least gcTime has passed since the last unsubscribe.
C5_EntryRetainedWhileObservedOrRecent ==
  [][ \A k \in Keys :
        (cache[k].present /\ ~cache'[k].present)
          => (subscribers[k] = 0 /\ cache[k].idle >= GcTime) ]_vars

\* C5: the entry of the events list, which had been queried, was removed.
C5_Witness ==
  /\ stats["list"].queries > 0
  /\ ~cache["list"].present
  /\ subscribers["list"] = 0

\* C10: while the query of FindEventSection is disabled (no search term),
\* its fetch function is not called and it reports idle, not loading: the
\* section does not show the loading indicator.
C10_DisabledQueryIsIdle ==
  (findMounted /\ ~FindEnabled)
    => /\ cache["search"].status # "fetching"
       /\ FindEntry.status = "idle"
       /\ FindContent # "LoadingIndicator"

\* C11: a subscriber is notified only after the write is complete: the
\* state counterSubscriber reads with getState after a dispatch is the state
\* the reducer produced for that dispatch.
C11_SubscriberReadsWrittenState ==
  [][ (nDispatches' = nDispatches + 1 /\ listeners > 0)
        => /\ Len(consoleLog') = Len(consoleLog) + 1
           /\ \E action \in ActionTypes :
                /\ counterState' = counterReducer(counterState, action)
                /\ consoleLog'[Len(consoleLog')] = counterReducer(counterState, action) ]_vars

\* C11: the two dispatches of the script, increment and decrement, have
\* been logged as 1 and 0.
C11_Witness ==
  /\ listeners = 1
  /\ nDispatches = 2
  /\ consoleLog = <<1, 0>>

\* C12: the step in which a failed optimistic place selection surfaces its
\* error has rolled the optimistic change back: the error is set, and the
\* place the selection had added is not in userPlaces next to it.
C12_ErrorOnlyAfterRollback ==
  [][ \A i \in UpdateIds :
        (/\ updateLog[i].kind = "select"
         /\ updateLog[i].patched # updateLog[i].prePatch
         /\ updateLog[i].status = "pending" /\ updateLog'[i].status = "failure")
          => /\ errorUpdatingPlaces' \notin {Undefined, "null"}
             /\ ~Contains(userPlaces', updateLog[i].place) ]_vars

\* C13: a reducer does not modify the action object it is given (nor the
\* state object): after every call the action is as it was passed in.
C13_ReducersArePure ==
  /\ shoppingCall.result.action = shoppingCall.given
  /\ cartCall.result.action = cartCall.given

\* A text is non-blank: it has a character that is not a blank.
NonBlank(text) == ~text.null /\ \E i \in DOMAIN text.chars : text.chars[i] # " "

\* The input shareMeal is to accept.
ValidMeal(meal) ==
  /\ NonBlank(meal.title) /\ NonBlank(meal.summary) /\ NonBlank(meal.instructions)
  /\ NonBlank(meal.creator) /\ NonBlank(meal.creator_email)
  /\ \E i \in DOMAIN meal.creator_email.chars : meal.creator_email.chars[i] = "@"
  /\ ~meal.image.null /\ meal.image.size > 0

\* C14: shareMeal calls saveMeal only for valid input; for any other input it
\* returns {message: "Invalid input"} and saves, revalidates and redirects
\* nothing; for valid input the calls are saveMeal, revalidatePath, redirect
\* in this order.
C14_ShareMealValidatesBeforeSaving ==
  sharePc # "idle"
    => IF ValidMeal(shareForm)
         THEN /\ shareResult = "none"
              /\ shareEffects = IF sharePc = "redirected"
                                  THEN <<"saveMeal", "revalidatePath", "redirect">>
                                  ELSE <<"saveMeal">>
              /\ sharePc \in {"saving", "redirected", "rejected"}
         ELSE /\ sharePc = "returned"
              /\ shareResult = "Invalid input"
              /\ shareEffects = <<>>

\* C14: a valid meal has been saved, the path revalidated and the user
\* redirected.
C14_Witness ==
  /\ sharePc = "redirected"
  /\ ValidMeal(shareForm)
  /\ shareEffects = <<"saveMeal", "revalidatePath", "redirect">>

\* C15: for an action whose type is neither ADD_ITEM nor UPDATE_ITEM,
\* shoppingCartReducer returns the state it was given, with the same items.
C15_UnknownActionKeepsState ==
  shoppingCall.given.type \notin {"", "ADD_ITEM", "UPDATE_ITEM"}
    => /\ ~shoppingCall.result.threw
       /\ shoppingCall.result.sameObject
       /\ shoppingCall.result.state = shoppingCall.before

\* C16: userAnswers holds exactly one entry per question that was shown:
\* entry i was given while question i was on screen.
C16_OneAnswerPerQuestion ==
  \A i \in DOMAIN answeredFor : answeredFor[i] = i - 1

\* C17: the active question index is at most QUESTIONS.length, and while
\* the quiz is not complete QUESTIONS[activeQuestionIndex] exists.
C17_ActiveQuestionExists ==
  /\ activeQuestionIndex <= NumQuestions
  /\ ~quizIsComplete => QuestionExists(activeQuestionIndex)

\* C18: at most one debounce timer is pending; searchTerm is set only after
\* 500 ms without a keystroke and to the text of the last keystroke; every
\* burst of keystrokes is followed by exactly one update of searchTerm.
C18_DebouncedSearchTerm ==
  /\ [](Cardinality(debounceTimers) <= 1)
  /\ [](bursts = termUpdates + Cardinality(debounceTimers))
  /\ [][ (termUpdates' # termUpdates \/ listSearchTerm' # listSearchTerm)
           => /\ quietMs >= DebounceMs
              /\ termUpdates' = termUpdates + 1
              /\ listSearchTerm' = inputValue ]_vars
  /\ \A n \in 1..MaxKeystrokes : (bursts = n) ~> (termUpdates = n)

\* C18: a burst of two keystrokes was followed by one update of searchTerm
\* with the text of the second.
C18_Witness ==
  /\ nKeystrokes = 2
  /\ bursts = 1
  /\ termUpdates = 1
  /\ debounceTimers = {}
  /\ listSearchTerm = inputValue

\* C19: once a fetch has started, isFetching eventually becomes false, in
\* useFetch and in AvailablePlaces.
C19_IsFetchingEventuallyFalse ==
  /\ (apIsFetching = TRUE) ~> (apIsFetching = FALSE)
  /\ \A h \in Hooks : (isFetching[h] = "true") ~> (isFetching[h] = "false")

\* C20: useFetch reports isFetching = true as long as a fetchFn call of the
\* hook has not settled.
C20_IsFetchingWhilePending ==
  \A h \in Hooks :
    (\E c \in inflight : c.hook = h) => isFetching[h] = "true"

\* C21: the list handleSelectPlace sends to updateUserPlaces equals the
\* userPlaces list held in state after the optimistic update.
C21_SentListEqualsState ==
  \A i \in UpdateIds :
    updateLog[i].kind = "select" => updateLog[i].sent = updateLog[i].patched

\* C22: when an update request fails while a later, overlapping selection of
\* another place has already succeeded, the rollback leaves the place of
\* that selection in userPlaces.
C22_RollbackKeepsOtherPlace ==
  [][ \A i, j \in UpdateIds :
        (/\ i < j
         /\ updateLog[i].kind = "select" /\ updateLog[j].kind = "select"
         /\ updateLog[i].status = "pending" /\ updateLog'[i].status = "failure"
         /\ updateLog[j].status = "success"
         /\ updateLog[j].place # updateLog[i].place
         /\ Contains(userPlaces, updateLog[j].place))
          => Contains(userPlaces', updateLog[j].place) ]_vars

(***************************************************************************)
(* Properties of cartReducer (checked under SpecCartContext)               *)
(***************************************************************************)
\* C23: after any sequence of ADD_ITEM and REMOVE_ITEM actions applied to
\* cartReducer from the empty cart, no two cart items share an id and every
\* item's quantity is at least 1.
C23_CartItemsDistinctAndPositive ==
  /\ \A i, j \in DOMAIN cart.items : cart.items[i].id = cart.items[j].id => i = j
  /\ \A i \in DOMAIN cart.items : cart.items[i].quantity >= 1

\* C23: a cart of two different items, reached by adding an item twice and
\* removing it once along the way.
C23_Witness ==
  /\ Len(cart.items) = 2
  /\ cartCall.given.type = "REMOVE_ITEM"
  /\ ~cartCall.result.threw
  /\ \E i \in DOMAIN cartCall.before.items : cartCall.before.items[i].quantity = 2

\* C24: REMOVE_ITEM for an id that is not in the cart returns the cart
\* unchanged and does not fail.
C24_RemoveOfMissingItemKeepsCart ==
  (/\ cartCall.given.type = "REMOVE_ITEM"
   /\ FindIndex(cartCall.before.items, cartCall.given.payload.productId) = 0)
    => /\ ~cartCall.result.threw
       /\ cartCall.result.state = cartCall.before

(***************************************************************************)
(* Properties of the PlacePicker with localStorage (checked under          *)
(* SpecPicker)                                                             *)
(***************************************************************************)
\* C25: after any sequence of handleSelectPlace and handleRemovePlace calls
\* the id list stored under "selectedPlaces" equals the ids of pickedPlaces
\* in the same order, and pickedPlaces holds no place twice.
C25_StoredIdsMatchPickedPlaces ==
  /\ StoredIds(selectedPlacesItem) = pickedPlaces
  /\ \A i, j \in DOMAIN pickedPlaces : pickedPlaces[i] = pickedPlaces[j] => i = j

\* C25: two places were picked and one of them was removed again: one
\* place is left, in the state and in the storage.
C25_Witness ==
  /\ Len(pickedPlaces) = 1
  /\ selectedPlacesItem = JSONStringify(pickedPlaces)
  /\ pickerSelectedPlace # 0
  /\ ~Contains(pickedPlaces, pickerSelectedPlace)

\* C26: the timer of DeleteConfirmation invokes onConfirm only while the
\* component is mounted and for the effect that is in place: while the
\* component is not mounted no timer is pending, and at most one ever is.
C26_TimerOnlyWhileMounted ==
  /\ dialogLog.timer # 0 => (dialogLog.mounted /\ dialogLog.effect = dialogLog.timer)
  /\ ~DialogMounted(modalChildren, pickerModalIsOpen) => dialogTimers = {}
  /\ Cardinality(dialogTimers) <= 1

\* C26: the user cancelled a first dialog, and the timer of a second one
\* has run and removed the place.
C26_Witness ==
  /\ modalChildren = "whenOpen"
  /\ nDialogTimers = 2
  /\ dialogLog.timer = 2
  /\ pickerModalIsOpen
  /\ ~Contains(pickedPlaces, pickerSelectedPlace)

(***************************************************************************)
(* Properties of signupAction (checked under SpecSignup)                   *)
(***************************************************************************)
\* C27: signupAction reports the password error exactly when the password
\* is empty or shorter than six characters.
C27_PasswordErrorBelowSixCharacters ==
  signupSubmitted
    => ((\E i \in DOMAIN formState.errors : formState.errors[i] = PasswordError)
          <=> (~isNotEmpty(signupForm.password) \/ Len(signupForm.password) < 6))

(***************************************************************************)
(* Properties of the event detail action (checked under SpecRoute)         *)
(***************************************************************************)
\* C28: the action redirects to /events when the delete request is answered
\* with an ok response, and throws the "Could not delete event." response
\* only when the answer is not ok.
C28_RedirectsWhenDeleteIsOk ==
  \A i \in ActionIds :
    /\ actionLog[i].answer = "ok" => actionLog[i].outcome = "redirected"
    /\ (actionLog[i].outcome = "thrown" /\ actionLog[i].answer \notin {"none", "pending"})
         => actionLog[i].answer = "not ok"

(***************************************************************************)
(* Properties of the Accordion (checked under SpecAccordion)               *)
(***************************************************************************)
\* C29: at most one accordion item is open; toggleItem(id) on a closed item
\* makes id the only open item, and toggleItem(id) on the open item leaves
\* no item open.
C29_AtMostOneItemOpen ==
  /\ Cardinality(OpenItems(openItemId)) <= 1
  /\ accordionCall.id # 0
       => OpenItems(openItemId) =
            IF isOpen(accordionCall.before, accordionCall.id)
              THEN {} ELSE {accordionCall.id}

\* C29: an item was open and toggleItem of another item has made that one
\* the only open item.
C29_Witness ==
  /\ accordionCall.id # 0
  /\ accordionCall.before.kind = "id"
  /\ accordionCall.before.id # accordionCall.id
  /\ OpenItems(openItemId) = {accordionCall.id}

====
